---------------------------- MODULE Spec2Model ----------------------------
(***************************************************************************)
(* A model of tydle's multi-client extraction pipeline, its facade guard   *)
(* and its signature decipher flow.                                        *)
(*                                                                         *)
(*   Spec        client selection (get_clients), the lazily built client   *)
(*               registry (INNERTUBE_CLIENTS) and the per-client loop of   *)
(*               extract_player_responses                                  *)
(*   FairSpec    Spec with weak fairness of the loop steps                 *)
(*   SpecDedup   the de-duplication step of get_clients on any sequence    *)
(*   SpecFacade  concurrent invocations of the facade's Extract methods    *)
(*               around the extractor's guard                              *)
(*   SpecCipher  load_player and decipher over the two shared caches       *)
(***************************************************************************)
EXTENDS Integers, Sequences, FiniteSets, TLC

VARIABLES
    \* ---- extractor state and one extraction (extract.rs, player.rs)
    is_authenticated,        \* YtExtractor::is_authenticated()
    is_premium_subscriber,   \* argument of get_clients / extract_player_responses
    is_music,                \* smuggled is_music_url == "true" or is_music_url(url)
    initial_pr,              \* ytInitialPlayerResponse mined from the webpage
    registry,                \* the Lazy static INNERTUBE_CLIENTS
    clients,                 \* the selection get_clients returned
    actual_clients,          \* the working list of the loop
    prs,                     \* the accumulator of player responses
    last,                    \* what the latest loop iteration did
    accepted_any,            \* some client call had its response pushed to prs
    pc,                      \* position of the extraction
    result,                  \* what extract_player_responses returned
    webpage_ytcfg,           \* the ytcfg of the watch page (argument)
    asked,                   \* the clients requested so far, by first request
    the_player_url,          \* `player_url` of the loop (line 384)
    the_visitor_data,        \* `visitor_data` of the loop (line 386)
    the_data_sync_id,        \* `data_sync_id` of the loop (line 387)
    tried_iframe_fallback,   \* `tried_iframe_fallback` (line 383)
    iframe_fetches,          \* GETs of the iframe_api page so far
    \* ---- the de-duplication step on its own
    candidate,               \* `clients` before line 345 of extract.rs
    unique_clients,          \* `unique_clients` after line 346
    dd_pc,
    \* ---- the facade (tydle.rs)
    target,                  \* the build: tokio::sync::Mutex or std::sync::Mutex
    task,                    \* each caller's invocation and its position
    holder,                  \* the task owning the guard of yt_extractor
    waiters,                 \* tasks queued in `lock().await`
    \* ---- the caches and the decipher (cache.rs, decipher.rs, js.rs)
    player_cache,            \* CacheStore<(String, String)>
    code_cache,              \* CacheStore<String>
    solver_runs,             \* executions of parse_signature_js so far
    dc,                      \* the latest decipher call: arguments and outcome
    \* ---- one CacheStore used through its CacheAccess methods (cache.rs)
    store,                   \* CacheStore::cache
    first_added,             \* for each key, the value of its first add
    store_op,                \* the latest call: method, key, value, return
    \* ---- a function applied to one argument
    fn_pc,                   \* which function, and whether it has returned
    arg,                     \* its argument
    ret,                     \* what it returned
    \* ---- the cookie jar (cookies.rs)
    jar,                     \* CookieJar::cookies, the Vec behind the RwLock
    rw,                      \* the RwLock: the threads holding it
    thr,                     \* each thread's call on the jar and its position
    hist                     \* the jar after each complete set

orchVars == <<is_authenticated, is_premium_subscriber, is_music, initial_pr,
              registry, clients, actual_clients, prs, last, accepted_any, pc,
              result, webpage_ytcfg, asked, the_player_url, the_visitor_data,
              the_data_sync_id, tried_iframe_fallback, iframe_fetches>>
dedupVars == <<candidate, unique_clients, dd_pc>>
facadeVars == <<target, task, holder, waiters>>
cipherVars == <<player_cache, code_cache, solver_runs, dc>>
cacheVars == <<store, first_added, store_op>>
pureVars == <<fn_pc, arg, ret>>
jarVars == <<jar, rw, thr, hist>>
extraVars == <<cacheVars, pureVars, jarVars>>
vars == <<orchVars, dedupVars, facadeVars, cipherVars, extraVars>>

----------------------------------------------------------------------------
(* Bounds of the model.                                                    *)

\* Entries of prs the model records; later pushes are dropped by the model
\* (the loop never reads prs, so its control flow is unaffected).
MaxPrs == 2
\* The environment answers "age-gated" only while the working list has room.
MaxWorking == 5
\* Longest candidate sequence given to the de-duplication step.
MaxCand == 3
\* Longest data-sync-id, in tokens, given to parse_data_sync_id.
MaxSyncLen == 4
\* Most characters of a string given to VideoId::new, and most occurrences
\* in it of each kind of character other than ASCII letters and digits.
MaxIdChars == 12
MaxRare == 2
\* Callers that invoke an Extract method of one facade concurrently.
MaxTasks == 3

----------------------------------------------------------------------------
(* YtClient and its textual names.                                         *)

YtClient ==
    {"Web", "WebSafari", "WebEmbedded", "WebMusic", "WebCreator", "Android",
     "AndroidSdkless", "AndroidVr", "IOS", "MWeb", "Tv", "TvSimply", "TvEmbedded"}

\* as_str, as the sequence of the name's pieces: "web_safari" is
\* <<"web", "_", "safari">>.
as_str(c) ==
    CASE c = "Web"            -> <<"web">>
      [] c = "WebSafari"      -> <<"web", "_", "safari">>
      [] c = "WebEmbedded"    -> <<"web", "_", "embedded">>
      [] c = "WebMusic"       -> <<"web", "_", "music">>
      [] c = "WebCreator"     -> <<"web", "_", "creator">>
      [] c = "Android"        -> <<"android">>
      [] c = "AndroidSdkless" -> <<"android", "_", "sdkless">>
      [] c = "AndroidVr"      -> <<"android", "_", "vr">>
      [] c = "IOS"            -> <<"ios">>
      [] c = "MWeb"           -> <<"mweb">>
      [] c = "Tv"             -> <<"tv">>
      [] c = "TvSimply"       -> <<"tv", "_", "simply">>
      [] c = "TvEmbedded"     -> <<"tv", "_", "embedded">>

\* str::split_once('_'): the index of the first "_", 0 when there is none.
FirstUnderscore(s) ==
    IF \E i \in 1..Len(s) : s[i] = "_"
    THEN CHOOSE i \in 1..Len(s) : s[i] = "_" /\ \A j \in 1..(i - 1) : s[j] # "_"
    ELSE 0

get_variant(c) ==
    LET s == as_str(c)
        i == FirstUnderscore(s)
    IN  IF i = 0 THEN s ELSE SubSeq(s, i + 1, Len(s))

get_base(c) ==
    LET s == as_str(c)
        i == FirstUnderscore(s)
    IN  IF i = 0 THEN s ELSE SubSeq(s, 1, i - 1)

----------------------------------------------------------------------------
(* The client registry: the m.insert calls of the Lazy initialiser, in     *)
(* source order.  `profile` names the profile by its clientName.           *)

Profile(key, name, cookies, js, auth) ==
    [key |-> key, profile |-> name, supports_cookies |-> cookies,
     require_js_player |-> js, require_auth |-> auth]

RegistryInserts ==
    << Profile("Web",            "WEB",                            TRUE,  TRUE,  FALSE),
       Profile("WebSafari",      "WEB/safari",                     TRUE,  TRUE,  FALSE),
       Profile("WebEmbedded",    "WEB_EMBEDDED_PLAYER",            TRUE,  TRUE,  FALSE),
       Profile("WebMusic",       "WEB_REMIX",                      TRUE,  TRUE,  FALSE),
       Profile("WebCreator",     "WEB_CREATOR",                    TRUE,  TRUE,  TRUE),
       Profile("Android",        "ANDROID",                        FALSE, FALSE, FALSE),
       Profile("AndroidSdkless", "ANDROID/sdkless",                FALSE, FALSE, FALSE),
       Profile("AndroidVr",      "ANDROID_VR",                     FALSE, FALSE, FALSE),
       Profile("IOS",            "IOS",                            FALSE, FALSE, FALSE),
       Profile("MWeb",           "MWEB",                           TRUE,  TRUE,  FALSE),
       Profile("Tv",             "TVHTML5",                        TRUE,  TRUE,  FALSE),
       \* client.rs:483-498: the tv_simply profile is inserted under YtClient::Tv
       Profile("Tv",             "TVHTML5_SIMPLY",                 FALSE, TRUE,  FALSE),
       Profile("TvEmbedded",     "TVHTML5_SIMPLY_EMBEDDED_PLAYER", TRUE,  TRUE,  TRUE) >>

\* The profile each ClientId is written for (the *_context built for it).
OwnProfile(c) ==
    CASE c = "Web"            -> "WEB"
      [] c = "WebSafari"      -> "WEB/safari"
      [] c = "WebEmbedded"    -> "WEB_EMBEDDED_PLAYER"
      [] c = "WebMusic"       -> "WEB_REMIX"
      [] c = "WebCreator"     -> "WEB_CREATOR"
      [] c = "Android"        -> "ANDROID"
      [] c = "AndroidSdkless" -> "ANDROID/sdkless"
      [] c = "AndroidVr"      -> "ANDROID_VR"
      [] c = "IOS"            -> "IOS"
      [] c = "MWeb"           -> "MWEB"
      [] c = "Tv"             -> "TVHTML5"
      [] c = "TvSimply"       -> "TVHTML5_SIMPLY"
      [] c = "TvEmbedded"     -> "TVHTML5_SIMPLY_EMBEDDED_PLAYER"

\* HashMap::insert: a later insert under the same key replaces the earlier.
MapInsert(m, e) ==
    [k \in DOMAIN m \cup {e.key} |-> IF k = e.key THEN e ELSE m[k]]

EmptyMap == [k \in {} |-> 0]

RECURSIVE InsertAll(_, _)
InsertAll(m, es) ==
    IF es = <<>> THEN m ELSE InsertAll(MapInsert(m, Head(es)), Tail(es))

\* The value the Lazy initialiser returns.
INNERTUBE_CLIENTS == InsertAll(EmptyMap, RegistryInserts)

\* Lazy::force: the initialiser runs on the first access only.
Force(reg) == IF reg.built THEN reg ELSE [built |-> TRUE, m |-> INNERTUBE_CLIENTS]

----------------------------------------------------------------------------
(* get_clients (extract.rs:295-349).                                       *)

BaseClients(premium, auth) ==
    IF premium THEN <<"Tv", "WebCreator", "WebSafari", "Web">>
    ELSE IF auth THEN <<"Tv", "WebSafari", "Web">>
    ELSE <<"AndroidSdkless", "Tv", "WebSafari", "Web">>

\* lines 327-333: the clients of cs whose profile does not support cookies.
RECURSIVE UnsupportedClients(_, _)
UnsupportedClients(cs, m) ==
    IF cs = <<>> THEN <<>>
    ELSE IF ~m[Head(cs)].supports_cookies
         THEN <<Head(cs)>> \o UnsupportedClients(Tail(cs), m)
         ELSE UnsupportedClients(Tail(cs), m)

\* A retain that drops nothing.
RetainSupported_KeepAll(cs, unsupported) == cs

\* lines 335-342: clients.retain(|c| !unsupported.any(|u| u == c)), order kept.
RECURSIVE RetainSupported(_, _)
RetainSupported(cs, unsupported) ==
    IF cs = <<>> THEN <<>>
    ELSE IF \E i \in 1..Len(unsupported) : unsupported[i] = Head(cs)
         THEN RetainSupported(Tail(cs), unsupported)
         ELSE <<Head(cs)>> \o RetainSupported(Tail(cs), unsupported)

\* lines 320-343: the authenticated branch (m is the forced registry map;
\* INNERTUBE_CLIENTS.get(&client).unwrap() is total on the candidates).
AuthAdjust(cs, music, m) ==
    LET withMusic == IF music THEN Append(cs, "WebMusic") ELSE cs
    IN  RetainSupported(withMusic, UnsupportedClients(withMusic, m))

\* A working list left in the order of the selection.
Reverse_Kept(s) == s

\* Vec::reverse.
RECURSIVE Reverse(_)
Reverse(s) == IF s = <<>> THEN <<>> ELSE Append(Reverse(Tail(s)), Head(s))

\* lines 345-346: filter(|c| seen.insert(*c)), a HashSet of the tags seen.
RECURSIVE UniqueFrom(_, _)
UniqueFrom(s, seen) ==
    IF s = <<>> THEN <<>>
    ELSE IF Head(s) \in seen THEN UniqueFrom(Tail(s), seen)
    ELSE <<Head(s)>> \o UniqueFrom(Tail(s), seen \cup {Head(s)})

\* A de-duplication that keeps the last occurrence of a tag instead.
UniqueClients_KeepLast(s) == Reverse(UniqueFrom(Reverse(s), {}))

UniqueClients(s) == UniqueFrom(s, {})

get_clients(music, premium, auth, m) ==
    LET base == BaseClients(premium, auth)
    IN  UniqueClients(IF auth THEN AuthAdjust(base, music, m) ELSE base)

----------------------------------------------------------------------------
(* extract_player_responses (player.rs:355-529).                           *)

\* What the player endpoint can answer to one client.  `err` is a failed
\* request (transport, decode or player identification: the `?` of lines
\* 320-350); `id_ok` is videoDetails.videoId == requested id (lines 125-143);
\* `age_gated` is is_age_gated (lines 145-186); `unplayable` is is_unplayable
\* (lines 188-198).
Response(err, id_ok, age, unpl) ==
    [err |-> err, id_ok |-> id_ok, age_gated |-> age, unplayable |-> unpl]

Responses ==
    { Response(TRUE, FALSE, FALSE, FALSE), Response(FALSE, FALSE, FALSE, FALSE) }
    \cup { Response(FALSE, TRUE, a, u) : a \in BOOLEAN, u \in BOOLEAN }

\* Option<T>
None == [some |-> FALSE, val |-> <<>>]
Some(v) == [some |-> TRUE, val |-> v]

\* Result<T>
Ok(v) == [ok |-> TRUE, val |-> <<v>>, err |-> ""]
Err(e) == [ok |-> FALSE, val |-> <<>>, err |-> e]

\* The ytInitialPlayerResponse of the webpage is one of: "absent"
\* (search_json returned the empty default), "valid" (for the requested
\* video), "other_video", or "no_video_id" (a response without a
\* videoDetails.videoId string).

\* The requested video id, and videoDetails.videoId of an initial player
\* response as lines 131-136 read it: "" when the field is missing.
RequestedVideoId == "UWn9RdueB7E"
PrVideoId(ipr) ==
    CASE ipr = "valid" -> RequestedVideoId
      [] ipr = "other_video" -> "otherVideo0"
      [] OTHER -> ""

\* lines 125-143: the id of the response when it is not the requested one.
invalid_player_response(pr_id, video_id) ==
    IF pr_id # video_id THEN Some(pr_id) ELSE None

\* Option<String>::unwrap_or_default
unwrap_or_default(opt) == IF opt.some THEN opt.val ELSE ""

\* One entry of prs: where it came from, what the checks of the loop saw,
\* and whether its streamingData was replaced by null (line 368).
PrEntry(from, id_ok, age) ==
    [from |-> from, id_ok |-> id_ok, age_gated |-> age,
     streamingData |-> IF from = "initial_pr" THEN "null" ELSE "kept"]

\* Vec::push on prs, as far as the model records it.
PushPr(ps, e) == IF Len(ps) < MaxPrs THEN Append(ps, e) ELSE ps

\* An accumulator that takes any initial player response the webpage has.
InitialAccumulator_NoIdCheck(ipr) ==
    IF ipr # "absent"
    THEN <<PrEntry("initial_pr", PrVideoId(ipr) = RequestedVideoId, FALSE)>>
    ELSE <<>>

\* lines 364-379: prs after the initial player response was considered.
InitialAccumulator(ipr) ==
    IF /\ ipr # "absent"
       /\ unwrap_or_default(invalid_player_response(PrVideoId(ipr), RequestedVideoId)) = ""
    THEN <<PrEntry("initial_pr", PrVideoId(ipr) = RequestedVideoId, FALSE)>>
    ELSE <<>>

\* Vec::pop takes the last element.
Popped(s) == s[Len(s)]
AfterPop(s) == SubSeq(s, 1, Len(s) - 1)

\* line 495: is_age_gated(&player_response) && variant != "web_embedded"
PushesWebEmbedded(variant, resp) ==
    resp.age_gated /\ variant # <<"web", "_", "embedded">>

\* lines 508-509
embedding_is_disabled(variant, resp) ==
    variant = <<"web", "_", "embedded">> /\ resp.unplayable

\* lines 511-512
PushesAuthFallback(variant, resp, auth) ==
    auth /\ (resp.age_gated \/ embedding_is_disabled(variant, resp))

\* The pushes of lines 518-519 in the other order, before that of line 496.
Appended_CreatorFirst(client, resp, auth) ==
    IF resp.err \/ ~resp.id_ok THEN <<>>
    ELSE IF resp.age_gated /\ auth THEN <<"WebCreator", "TvEmbedded", "WebEmbedded">>
    ELSE IF resp.age_gated THEN <<"WebEmbedded">>
    ELSE <<>>

\* lines 480-521: the clients one accepted-or-skipped response appends to the
\* working list, in push order.
Appended(client, resp, auth) ==
    IF resp.err \/ ~resp.id_ok THEN <<>>
    ELSE LET variant == get_variant(client)
             we == IF PushesWebEmbedded(variant, resp) THEN <<"WebEmbedded">> ELSE <<>>
         IN  IF resp.age_gated /\ ~auth THEN we
             ELSE IF PushesAuthFallback(variant, resp, auth)
                  THEN we \o <<"TvEmbedded", "WebCreator">>
                  ELSE we

\* lines 480-492: whether the response is pushed to prs.
Accepted(resp) == ~resp.err /\ resp.id_ok

NoLast == [client |-> "none", resp |-> Response(FALSE, FALSE, FALSE, FALSE),
           accepted |-> FALSE, appended |-> <<>>]

----------------------------------------------------------------------------
(* The facade: Tydle and its Extract methods (tydle.rs:42-46, 235-305).    *)

Tasks == 1..MaxTasks

\* The five methods of `impl Extract for Tydle`.
ExtractOps ==
    {"get_streams", "get_manifest", "get_video_info",
     "get_streams_from_manifest", "get_video_info_from_manifest"}

\* cfg(not(target_arch = "wasm32")) uses tokio::sync::Mutex, cfg(wasm32) uses
\* std::sync::Mutex (tydle.rs:5-9).
Targets == {"native", "wasm32"}

IdleTask == [op |-> "none", at |-> "idle"]

\* A lock that is handed out whether or not the guard is owned.
LockFree_IgnoresOwner(h, w) == TRUE

\* Whether `self.yt_extractor.lock()` hands out the guard at once: nobody
\* holds it and nobody is queued before the caller.
LockFree(h, w) == h = {} /\ w = <<>>

\* The tasks that are executing extractor code, running or suspended at one
\* of its await points.
Inside == {t \in Tasks : task[t].at \in {"running", "suspended"}}

FacadeIdle ==
    /\ target = "native" /\ task = [t \in {} |-> IdleTask]
    /\ holder = {} /\ waiters = <<>>

----------------------------------------------------------------------------
(* The caches and the decipher call record.                                *)

\* Strings are sequences of tokens: the delimiters "&", "=", "?", their
\* percent-encoded forms "%26", "%3D", "%3F", and delimiter-free pieces.

\* The position of the first token d of s, 0 when there is none
\* (str::find, str::split_once).
Find(s, d) ==
    IF \E i \in 1..Len(s) : s[i] = d
    THEN CHOOSE i \in 1..Len(s) : s[i] = d /\ \A j \in 1..(i - 1) : s[j] # d
    ELSE 0

\* str::split: the pieces of s between the tokens d.
RECURSIVE SplitOn(_, _)
SplitOn(s, d) ==
    LET i == Find(s, d)
    IN  IF i = 0 THEN <<s>>
        ELSE <<SubSeq(s, 1, i - 1)>> \o SplitOn(SubSeq(s, i + 1, Len(s)), d)

\* percent_decode of one token, and form_urlencoded's byte_serialize.
Decode(tok) ==
    CASE tok = "%26" -> "&" [] tok = "%3D" -> "=" [] tok = "%3F" -> "?"
      [] OTHER -> tok
Encode(tok) ==
    CASE tok = "&" -> "%26" [] tok = "=" -> "%3D" [] tok = "?" -> "%3F"
      [] OTHER -> tok
RECURSIVE DecodeAll(_)
DecodeAll(s) == IF s = <<>> THEN <<>> ELSE <<Decode(Head(s))>> \o DecodeAll(Tail(s))
RECURSIVE EncodeAll(_)
EncodeAll(s) == IF s = <<>> THEN <<>> ELSE <<Encode(Head(s))>> \o EncodeAll(Tail(s))

\* form_urlencoded::parse: split on "&", skip empty pieces, split each piece
\* at its first "=", decode name and value.
ParsePiece(piece) ==
    LET i == Find(piece, "=")
    IN  IF i = 0 THEN <<DecodeAll(piece), <<>>>>
        ELSE <<DecodeAll(SubSeq(piece, 1, i - 1)),
               DecodeAll(SubSeq(piece, i + 1, Len(piece)))>>
RECURSIVE ParsePieces(_)
ParsePieces(pieces) ==
    IF pieces = <<>> THEN <<>>
    ELSE IF Head(pieces) = <<>> THEN ParsePieces(Tail(pieces))
    ELSE <<ParsePiece(Head(pieces))>> \o ParsePieces(Tail(pieces))
form_urlencoded_parse(s) == ParsePieces(SplitOn(s, "&"))

\* Iterator::collect into a HashMap: a later pair replaces an earlier one
\* of the same name.
RECURSIVE CollectPairs(_)
CollectPairs(pairs) ==
    IF pairs = <<>> THEN EmptyMap
    ELSE LET latest == pairs[Len(pairs)]
         IN  (latest[1] :> latest[2]) @@ CollectPairs(SubSeq(pairs, 1, Len(pairs) - 1))

\* A parse that supplies a value for `url` and `s` when the query has none.
parse_query_string_WithDefaults(qs) ==
    CollectPairs(form_urlencoded_parse(qs))
        @@ (<<"s">> :> <<"AAA">>) @@ (<<"url">> :> <<"https://rr1.googlevideo.com/videoplayback">>)

\* utils.rs:9-11
parse_query_string(qs) == CollectPairs(form_urlencoded_parse(qs))

\* form_urlencoded::Serializer: append_pair for each pair, joined by "&".
RECURSIVE SerializePairs(_)
SerializePairs(pairs) ==
    IF pairs = <<>> THEN <<>>
    ELSE LET one == EncodeAll(Head(pairs)[1]) \o <<"=">> \o EncodeAll(Head(pairs)[2])
         IN  IF Len(pairs) = 1 THEN one
             ELSE one \o <<"&">> \o SerializePairs(Tail(pairs))

\* The orders in which a HashMap with these keys can be iterated.
RECURSIVE Orders(_)
Orders(keys) ==
    IF keys = {} THEN {<<>>}
    ELSE UNION {{<<k>> \o rest : rest \in Orders(keys \ {k})} : k \in keys}

\* Url::parse, as far as the query is concerned: the part before the first
\* "?" and the query after it.
UrlBase(url) == IF Find(url, "?") = 0 THEN url ELSE SubSeq(url, 1, Find(url, "?") - 1)
UrlQuery(url) ==
    IF Find(url, "?") = 0 THEN <<>> ELSE SubSeq(url, Find(url, "?") + 1, Len(url))

\* The pairs of a map in one iteration order.
RECURSIVE PairsIn(_, _)
PairsIn(order, map) ==
    IF order = <<>> THEN <<>>
    ELSE << <<Head(order), map[Head(order)]>> >> \o PairsIn(Tail(order), map)

\* utils.rs:22-36: the URLs replace_n_sig_query_param can return, one for
\* each iteration order of the HashMap it rebuilds the query from.
replace_n_sig_query_param(url_with_sig, deciphered_n) ==
    LET query_pairs == CollectPairs(form_urlencoded_parse(UrlQuery(url_with_sig)))
        replaced == IF <<"n">> \in DOMAIN query_pairs
                    THEN [query_pairs EXCEPT ![<<"n">>] = deciphered_n]
                    ELSE query_pairs
    IN  { UrlBase(url_with_sig) \o <<"?">> \o SerializePairs(PairsIn(order, replaced))
          : order \in Orders(DOMAIN replaced) }

\* A player URL is the sequence of its "/" and of the texts between them,
\* after the origin when it has one.
Origin == "https://www.youtube.com"
YT_URL == <<Origin>>
MainPlayerTail == <<"/", "player_ias.vflset", "/", "en_US", "/", "base.js">>

\* Player URLs: two players the first pattern of extract_player_info
\* identifies, and a URL no pattern matches.
PlayerUrls ==
    { <<Origin, "/", "s", "/", "player", "/", "0a1b2c3d">> \o MainPlayerTail,
      <<Origin, "/", "s", "/", "player", "/", "4e5f6a7b">> \o MainPlayerTail,
      <<Origin, "/", "watch">> }

\* The texts that match [a-zA-Z0-9_-]{8,} as a whole.
LongIds == {"0a1b2c3d", "4e5f6a7b", "player-vflABC123"}

\* The texts that start with "player" or "tv-player".
PlayerPrefixed ==
    {"player", "player.js", "player_ias.vflset", "player-vflABC123", "tv-player-ias.vflset"}

\* The texts of the form [a-zA-Z]{2,3}_[a-zA-Z]{2,3}.
Locales == {"en_US"}

\* The first word vfl[a-zA-Z0-9_-]+ that stands between word boundaries in
\* a text, "" when it has none.
VflWord(text) ==
    CASE text \in {"player_ias.vflset", "tv-player-ias.vflset"} -> "vflset"
      [] text = "player-vflABC123" -> "vflABC123"
      [] OTHER -> ""

\* The texts that end with ".js".
EndsWithJs == {"base.js", "player.js", "tv-player-ias.js"}

\* Where the match of each pattern of PLAYER_INFO_RE starts: the leftmost
\* position, 0 when the pattern does not match.
\* 1: /s/player/(?P<id>[a-zA-Z0-9_-]{8,})/(?:tv-)?player
MatchesAt1(u, i) ==
    /\ i + 7 <= Len(u)
    /\ SubSeq(u, i, i + 4) = <<"/", "s", "/", "player", "/">>
    /\ u[i + 5] \in LongIds
    /\ u[i + 6] = "/" /\ u[i + 7] \in PlayerPrefixed
\* 2: /(?P<id>[a-zA-Z0-9_-]{8,})/player_ias\.vflset(?:/xx_XX)?/base\.js$
\* (no URL here has the -plasma-ias- alternative).
MatchesAt2(u, i) ==
    /\ i + 3 <= Len(u)
    /\ u[i] = "/" /\ u[i + 1] \in LongIds
    /\ u[i + 2] = "/" /\ u[i + 3] = "player_ias.vflset"
    /\ \/ SubSeq(u, i + 4, Len(u)) = <<"/", "base.js">>
       \/ /\ Len(u) = i + 7
          /\ u[i + 4] = "/" /\ u[i + 5] \in Locales
          /\ SubSeq(u, i + 6, Len(u)) = <<"/", "base.js">>
\* 3: \b(?P<id>vfl[a-zA-Z0-9_-]+)\b.*?\.js$
MatchesAt3(u, i) ==
    /\ i < Len(u)
    /\ VflWord(u[i]) # ""
    /\ u[Len(u)] \in EndsWithJs

Leftmost(S) == IF S = {} THEN 0 ELSE CHOOSE i \in S : \A j \in S : i <= j

\* The `id` group of each pattern, <<>> when the pattern does not match.
Capture1(u) ==
    IF Leftmost({i \in 1..Len(u) : MatchesAt1(u, i)}) = 0 THEN <<>>
    ELSE <<u[Leftmost({i \in 1..Len(u) : MatchesAt1(u, i)}) + 5]>>
Capture2(u) ==
    IF Leftmost({i \in 1..Len(u) : MatchesAt2(u, i)}) = 0 THEN <<>>
    ELSE <<u[Leftmost({i \in 1..Len(u) : MatchesAt2(u, i)}) + 1]>>
Capture3(u) ==
    IF Leftmost({i \in 1..Len(u) : MatchesAt3(u, i)}) = 0 THEN <<>>
    ELSE <<VflWord(u[Leftmost({i \in 1..Len(u) : MatchesAt3(u, i)})])>>

\* An identification that lets the last pattern decide first.
extract_player_info_LastPatternFirst(player_url) ==
    IF Capture3(player_url) # <<>> THEN Capture3(player_url)
    ELSE IF Capture2(player_url) # <<>> THEN Capture2(player_url)
    ELSE Capture1(player_url)

\* cache.rs:60-79: the loop over PLAYER_INFO_RE returns the capture of the
\* first pattern that matches; <<>> for "Cannot identify player".
extract_player_info(player_url) ==
    IF Capture1(player_url) # <<>> THEN Capture1(player_url)
    ELSE IF Capture2(player_url) # <<>> THEN Capture2(player_url)
    ELSE Capture3(player_url)

\* Url::parse(player_url): a text without a scheme is a relative URL and is
\* refused; path() of a URL with nothing after the host is "/".
UrlParses(player_url) == player_url # <<>> /\ Head(player_url) = Origin
UrlPath(player_url) == IF Len(player_url) = 1 THEN <<"/">> ELSE Tail(player_url)

\* cache.rs:86-95: "<player_id>-<player_path>", <<>> when
\* get_player_id_and_path fails.
player_js_cache_key(player_url) ==
    IF extract_player_info(player_url) = <<>> \/ ~UrlParses(player_url) THEN <<>>
    ELSE extract_player_info(player_url) \o <<"-">> \o UrlPath(player_url)

\* js.rs:35-38: the keys of the solver's two modules in code_cache.
SolverLibKey == <<"https://github.com/yt-dlp/ejs/releases/download/0.3.1/yt.solver.lib.min.js">>
SolverCoreKey == <<"https://github.com/yt-dlp/ejs/releases/download/0.3.1/yt.solver.core.min.js">>

\* How one run of parse_signature_js (js.rs:33-110) can end.
SolverOutcomes == {"ok", "lib_fetch_failed", "core_fetch_failed", "js_failed"}

\* A module that is cached is not fetched, so its fetch cannot fail.
Feasible(cc, outcome) ==
    /\ outcome = "lib_fetch_failed" => SolverLibKey \notin DOMAIN cc
    /\ outcome = "core_fetch_failed" => SolverCoreKey \notin DOMAIN cc

\* An insert that keeps no other entry.
CacheAdd_Alone(cache, key, value) == (key :> value)

\* CacheStore::add (cache.rs:50-52): HashMap::insert.
CacheAdd(cache, key, value) == (key :> value) @@ cache

\* js.rs:33-74: code_cache after get_js_modules of a run that ends this way.
get_js_modules(cc, outcome) ==
    LET with_lib == IF SolverLibKey \in DOMAIN cc THEN cc
                    ELSE CacheAdd(cc, SolverLibKey, "lib")
        with_core == IF SolverCoreKey \in DOMAIN with_lib THEN with_lib
                     ELSE CacheAdd(with_lib, SolverCoreKey, "core")
    IN  CASE outcome = "lib_fetch_failed" -> cc
          [] outcome = "core_fetch_failed" -> with_lib
          [] OTHER -> with_core

\* What the solver answers for a challenge of one kind ("sig" or "n").
Solve(kind, challenge) == <<"solved", kind>> \o challenge

\* decipher.rs:85-88: (format!("{}-{}", signature_type.as_str(), player_url),
\* encrypted_signature)
CacheId(kind, player_url, encrypted) == <<<<kind, "-">> \o player_url, encrypted>>

\* A decrypt_signature that starts the solver without looking for the
\* player script.
decrypt_signature_Unchecked(kind, encrypted, player_url, pcache, cc, outcome) ==
    [err |-> IF outcome = "ok" THEN "none" ELSE outcome,
     value |-> IF outcome = "ok" THEN Solve(kind, encrypted) ELSE <<>>,
     ran |-> TRUE, cc |-> get_js_modules(cc, outcome)]

\* decipher.rs:59-98: decrypt_signature with extract_signature_function
\* inlined.  `ran` tells whether the solver was started, `cc` is code_cache
\* afterwards.
decrypt_signature(kind, encrypted, player_url, pcache, cc, outcome) ==
    LET cache_id == CacheId(kind, player_url, encrypted)
        code_key == player_js_cache_key(player_url)
    IN  IF cache_id \in DOMAIN pcache
        THEN [err |-> "none", value |-> pcache[cache_id], ran |-> FALSE, cc |-> cc]
        ELSE IF code_key = <<>>
        THEN [err |-> "cannot_identify_player", value |-> <<>>, ran |-> FALSE, cc |-> cc]
        ELSE IF code_key \notin DOMAIN cc
        THEN [err |-> "player_not_downloaded", value |-> <<>>, ran |-> FALSE, cc |-> cc]
        ELSE IF outcome # "ok"
        THEN [err |-> outcome, value |-> <<>>, ran |-> TRUE,
              cc |-> get_js_modules(cc, outcome)]
        ELSE [err |-> "none", value |-> Solve(kind, encrypted), ran |-> TRUE,
              cc |-> get_js_modules(cc, outcome)]

\* The stream URLs a signature query carries: with n as the first
\* parameter of the query, with n after another parameter, and without n.
StreamUrls ==
    { <<"https://rr1.googlevideo.com/videoplayback", "?", "n", "=", "Nq1", "&", "expire", "=", "1700">>,
      <<"https://rr1.googlevideo.com/videoplayback", "?", "expire", "=", "1700", "&", "n", "=", "Nq1">>,
      <<"https://rr1.googlevideo.com/videoplayback", "?", "expire", "=", "1700">> }

\* The fields of a signature query (a format's signatureCipher); <<>> is a
\* field that is not there.
CipherFields ==
    { [url |-> u, s |-> sv, sp |-> spv] :
        u \in StreamUrls \cup {<<>>}, sv \in {<<"AAA">>, <<>>},
        spv \in {<<"sig">>, <<>>} }

\* The signature query as it arrives: the fields that are there, each
\* percent-encoded, in the order s, sp, url.
SignatureOf(f) ==
    SerializePairs(
        (IF f.s = <<>> THEN <<>> ELSE << <<<<"s">>, f.s>> >>)
        \o (IF f.sp = <<>> THEN <<>> ELSE << <<<<"sp">>, f.sp>> >>)
        \o (IF f.url = <<>> THEN <<>> ELSE << <<<<"url">>, f.url>> >>))

\* The record of a decipher call: its arguments, how it ended, what it
\* returned, the solver runs it made and those of them that repeat a run of
\* an earlier call.
NoCall == [fields |-> [url |-> <<>>, s |-> <<>>, sp |-> <<>>], player_url |-> <<>>,
           outcome |-> "none", out |-> <<>>, ran |-> {}, reran |-> {}]

CipherIdle ==
    /\ player_cache = EmptyMap /\ code_cache = EmptyMap
    /\ solver_runs = {} /\ dc = NoCall

----------------------------------------------------------------------------
(* The extraction as a state machine.                                      *)

DedupIdle == candidate = <<>> /\ unique_clients = <<>> /\ dd_pc = "off"

\* No CacheStore call yet; None is <<>> and Some(v) is <<v>>.
NoStoreOp == [method |-> "none", key |-> "", value |-> "", returned |-> <<>>]
CacheIdle == store = EmptyMap /\ first_added = EmptyMap /\ store_op = NoStoreOp

PureIdle == fn_pc = [fn |-> "none", at |-> "off"] /\ arg = <<>> /\ ret = <<>>

----------------------------------------------------------------------------
(* The cookie jar: RwLock<DomainCookies> (cookies.rs:103-138).              *)

MaxThreads == 2
MaxJar == 2

Threads == 1..MaxThreads
Domains == {"youtube.com", "google.com"}
JarCookies == [name : {"SID"}, value : {"1"}, domain : Domains]

\* The value of a slot of the Vec that `push` has not finished writing.
Unwritten == "unwritten"

IdleThread ==
    [op |-> "none", at |-> "idle", domain |-> "", cookie |-> <<>>,
     from |-> 0, upto |-> 0, ret |-> <<>>]

\* A read lock that is granted while a writer holds the lock.
ReadFree_IgnoresWriter(l) == TRUE

\* RwLock::read succeeds at once when no writer holds the lock;
\* RwLock::write when nobody holds it.
ReadFree(l) == l.writer = {}
WriteFree(l) == l.writer = {} /\ l.readers = {}

\* cookies.rs:125-129: iter().filter(|c| c.domain == domain).cloned().collect()
OfDomain(cs, domain) == SelectSeq(cs, LAMBDA c : c.domain = domain)

JarIdle ==
    /\ jar = <<>> /\ hist = <<>>
    /\ rw = [readers |-> {}, writer |-> {}]
    /\ thr = [t \in {} |-> IdleThread]

ExtraIdle == CacheIdle /\ PureIdle /\ JarIdle

----------------------------------------------------------------------------
(* The values the loop of extract_player_responses resolves once           *)
(* (player.rs:383-420).                                                    *)

\* A ytcfg or a player response, as far as the loop reads it: the strings it
\* holds, each under the path of keys that leads to it.
EmptyYtcfg == [p \in {} |-> <<>>]

PlayerJsPath == <<"/", "s", "/", "player", "/", "0a1b2c3d">> \o MainPlayerTail

ValueAt(path) ==
    CASE path = <<"PLAYER_JS_URL">> -> PlayerJsPath
      [] path = <<"WEB_PLAYER_CONTEXT_CONFIGS", "WATCH", "jsUrl">> -> PlayerJsPath
      [] path = <<"VISITOR_DATA">> -> <<"visitor-of-ytcfg">>
      [] path = <<"responseContext", "visitorData">> -> <<"visitor-of-response">>
      [] path = <<"USER_SESSION_ID">> -> <<"user-of-ytcfg">>
      [] path = <<"INNERTUBE_CONTEXT", "USER_SESSION_ID">> -> <<"user-below">>
      [] path = <<"DELEGATED_SESSION_ID">> -> <<"delegated-of-ytcfg">>
      [] path = <<"DATASYNC_ID">> -> <<"delegated", "||", "user">>
      [] path = <<"INNERTUBE_CONTEXT", "DATASYNC_ID">> -> <<"delegated", "||", "user">>
      [] path = <<"INNERTUBE_CONTEXT", "DELEGATED_SESSION_ID">> -> <<"delegated-below">>
      [] path = <<"SESSION_INDEX">> -> <<"1">>
      [] path = <<"LOGGED_IN">> -> <<"true">>
      [] OTHER -> <<"text">>

YtcfgWith(paths) == [p \in paths |-> ValueAt(p)]

\* json.rs:27-50 applied to each value of the map (`for (_, v) in *ytcfg`):
\* a string under the key target_key somewhere inside the value of a top-level
\* key.  A string the map itself holds under target_key is passed to find_key
\* as a value, and a value that is a string matches no arm.  The inputs hold
\* at most one string under a key, so the order of iteration has no part.
find_key(ytcfg, target_key) ==
    LET hits == {p \in DOMAIN ytcfg : Len(p) >= 2 /\ p[Len(p)] = target_key}
    IN  IF hits = {} THEN None ELSE Some(ytcfg[CHOOSE p \in hits : TRUE])

\* player.rs:85-98, the PlayerUrl arm: format!("{}{}", YT_URL, player_url)
construct_player_url(url) == YT_URL \o url

\* player.rs:102-123: the first ytcfg that has a PLAYER_JS_URL or a jsUrl
\* in WEB_PLAYER_CONTEXT_CONFIGS; Ok(String::new()) when none has.
RECURSIVE get_player_url(_)
get_player_url(ytcfgs) ==
    IF ytcfgs = <<>> THEN <<>>
    ELSE LET ytcfg == Head(ytcfgs)
             js == {p \in DOMAIN ytcfg :
                      Len(p) = 3 /\ p[1] = "WEB_PLAYER_CONTEXT_CONFIGS" /\ p[3] = "jsUrl"}
         IN  IF <<"PLAYER_JS_URL">> \in DOMAIN ytcfg
             THEN construct_player_url(ytcfg[<<"PLAYER_JS_URL">>])
             ELSE IF js # {}
             THEN construct_player_url(ytcfg[CHOOSE p \in js : TRUE])
             ELSE get_player_url(Tail(ytcfgs))

\* ytcfg.rs:92-116
RECURSIVE select_visitor_data(_)
select_visitor_data(ytcfgs) ==
    IF ytcfgs = <<>> THEN None
    ELSE LET ytcfg == Head(ytcfgs)
         IN  IF <<"VISITOR_DATA">> \in DOMAIN ytcfg
             THEN Some(ytcfg[<<"VISITOR_DATA">>])
             ELSE IF <<"INNERTUBE_CONTEXT", "client", "visitorData">> \in DOMAIN ytcfg
             THEN Some(ytcfg[<<"INNERTUBE_CONTEXT", "client", "visitorData">>])
             ELSE IF <<"responseContext", "visitorData">> \in DOMAIN ytcfg
             THEN Some(ytcfg[<<"responseContext", "visitorData">>])
             ELSE select_visitor_data(Tail(ytcfgs))

\* auth.rs:130-151: in each ytcfg, a DATASYNC_ID inside a value, then
\* responseContext.mainAppWebResponseContext.datasyncId of a value.
RECURSIVE get_data_sync_id(_)
get_data_sync_id(ytcfgs) ==
    IF ytcfgs = <<>> THEN None
    ELSE LET ytcfg == Head(ytcfgs)
             rc == {p \in DOMAIN ytcfg :
                      /\ Len(p) = 4
                      /\ SubSeq(p, 2, 4) = <<"responseContext",
                                             "mainAppWebResponseContext", "datasyncId">>}
         IN  IF find_key(ytcfg, "DATASYNC_ID").some
             THEN find_key(ytcfg, "DATASYNC_ID")
             ELSE IF rc # {} THEN Some(ytcfg[CHOOSE p \in rc : TRUE])
             ELSE get_data_sync_id(Tail(ytcfgs))

\* The ytcfg of a watch page: one that holds nothing the loop reads, one
\* with a player script URL, a visitor id and a data-sync-id, and one with
\* the script URL of a player context only.
FullYtcfg ==
    YtcfgWith({<<"PLAYER_JS_URL">>, <<"VISITOR_DATA">>,
               <<"INNERTUBE_CONTEXT", "DATASYNC_ID">>})
ContextYtcfg == YtcfgWith({<<"WEB_PLAYER_CONTEXT_CONFIGS", "WATCH", "jsUrl">>})

\* The watch pages: the initial player response and the ytcfg mined from
\* the same page.
Webpages ==
    { [initial_pr |-> "absent",      ytcfg |-> EmptyYtcfg],
      [initial_pr |-> "absent",      ytcfg |-> FullYtcfg],
      [initial_pr |-> "valid",       ytcfg |-> EmptyYtcfg],
      [initial_pr |-> "valid",       ytcfg |-> ContextYtcfg],
      [initial_pr |-> "other_video", ytcfg |-> FullYtcfg],
      [initial_pr |-> "no_video_id", ytcfg |-> EmptyYtcfg] }

\* What the loop reads of the initial player response: a response of the
\* page carries responseContext.visitorData unless it lacks its video id.
InitialPrMap(ipr) ==
    IF ipr \in {"valid", "other_video"}
    THEN YtcfgWith({<<"responseContext", "visitorData">>})
    ELSE EmptyYtcfg

\* lines 395-399: the ytcfg of the client that fetched the watch page.
webpage_client == "Web"
player_ytcfg(client, wp) == IF client = webpage_client THEN wp ELSE EmptyYtcfg

\* An Option that keeps the value it holds: `x = Some(x.unwrap_or(v))` for
\* an Option v computed anew is `if x.is_none() { x = v }`.
KeepResolved_Forgetting(old, new) == IF old.some THEN None ELSE new

KeepResolved(old, new) == IF old.some THEN old ELSE new

\* lines 398-399: player_url = Some(player_url.unwrap_or(get_player_url(..)?))
NextPlayerUrl(old, ytcfgs) == Some(IF old.some THEN old.val ELSE get_player_url(ytcfgs))

\* Vec::push of a client not yet in the record of the clients requested.
Ask(requested, client) ==
    IF \E i \in 1..Len(requested) : requested[i] = client THEN requested
    ELSE Append(requested, client)

LoopIdle ==
    /\ webpage_ytcfg = EmptyYtcfg /\ asked = <<>>
    /\ the_player_url = None /\ the_visitor_data = None /\ the_data_sync_id = None
    /\ tried_iframe_fallback = FALSE /\ iframe_fetches = 0

Init ==
    /\ is_authenticated \in BOOLEAN
    /\ is_premium_subscriber \in BOOLEAN
    \* is_premium_subscriber() is false for an unauthenticated extractor
    \* (extract.rs:236-239)
    /\ is_premium_subscriber => is_authenticated
    /\ \E page \in Webpages :
         initial_pr = page.initial_pr /\ webpage_ytcfg = page.ytcfg
    /\ is_music = FALSE
    /\ registry = [built |-> FALSE, m |-> EmptyMap]
    /\ clients = <<>>
    /\ actual_clients = <<>>
    /\ prs = <<>>
    /\ last = NoLast
    /\ accepted_any = FALSE
    /\ pc = "select"
    /\ result = "none"
    /\ asked = <<>>
    /\ the_player_url = None /\ the_visitor_data = None /\ the_data_sync_id = None
    /\ tried_iframe_fallback = FALSE /\ iframe_fetches = 0
    /\ DedupIdle /\ FacadeIdle /\ CipherIdle /\ ExtraIdle

\* get_clients(url, smuggled_data, is_premium_subscriber)
GetClients ==
    /\ pc = "select"
    /\ \E url_is_music \in BOOLEAN, smuggled_is_music \in BOOLEAN :
         LET music == smuggled_is_music \/ url_is_music
             reg == IF is_authenticated THEN Force(registry) ELSE registry
         IN  /\ is_music' = music
             /\ registry' = reg
             /\ clients' = get_clients(music, is_premium_subscriber,
                                       is_authenticated, reg.m)
    /\ pc' = "begin"
    /\ UNCHANGED <<is_authenticated, is_premium_subscriber, initial_pr,
                   actual_clients, prs, last, accepted_any, result,
                   webpage_ytcfg, asked, the_player_url, the_visitor_data, the_data_sync_id,
                   tried_iframe_fallback, iframe_fetches,
                   dedupVars, facadeVars, cipherVars, extraVars>>

\* lines 364-387: up to the loop head
BeginLoop ==
    /\ pc = "begin"
    /\ prs' = InitialAccumulator(initial_pr)
    /\ actual_clients' = Reverse(clients)
    /\ tried_iframe_fallback' = FALSE
    /\ the_player_url' = None /\ the_visitor_data' = None /\ the_data_sync_id' = None
    /\ pc' = "loop"
    /\ UNCHANGED <<is_authenticated, is_premium_subscriber, is_music, initial_pr,
                   registry, clients, last, accepted_any, result,
                   webpage_ytcfg, asked, iframe_fetches,
                   dedupVars, facadeVars, cipherVars, extraVars>>

\* lines 405: the iframe_api page is fetched when no player URL is known
IframeFallback(url, tried, require_js_player) ==
    ~url.some /\ ~tried /\ require_js_player

\* download.rs:76-94: the player URL built from the player id found in the
\* iframe_api page, None when the page holds none.
IframePlayerUrls ==
    { None,
      Some(<<Origin, "/", "s", "/", "player", "/", "4e5f6a7b">> \o MainPlayerTail) }

\* lines 389-522: one iteration of the while loop
ClientStep ==
    /\ pc = "loop"
    /\ actual_clients # <<>>
    /\ \E resp \in Responses, fetched \in IframePlayerUrls :
         LET client == Popped(actual_clients)
             rest == AfterPop(actual_clients)
             reg == Force(registry)
             app == Appended(client, resp, is_authenticated)
             ytcfgs == <<webpage_ytcfg, InitialPrMap(initial_pr),
                         player_ytcfg(client, webpage_ytcfg)>>
             url == NextPlayerUrl(the_player_url,
                                  <<webpage_ytcfg, player_ytcfg(client, webpage_ytcfg)>>)
             fallback == /\ client \in DOMAIN reg.m
                         /\ IframeFallback(url, tried_iframe_fallback,
                                           reg.m[client].require_js_player)
         IN  /\ Len(rest) + Len(app) <= MaxWorking
             /\ registry' = reg
             /\ last' = [client |-> client, resp |-> resp,
                         accepted |-> Accepted(resp), appended |-> app]
             /\ the_player_url' = IF fallback THEN fetched ELSE url
             /\ ~fallback => fetched = None
             /\ tried_iframe_fallback' = (tried_iframe_fallback \/ fallback)
             /\ iframe_fetches' = IF fallback THEN iframe_fetches + 1 ELSE iframe_fetches
             /\ IF client \notin DOMAIN reg.m
                THEN \* select_default_ytcfg: INNERTUBE_CLIENTS.get(client).unwrap()
                     /\ pc' = "failed" /\ result' = "panic"
                     /\ actual_clients' = rest /\ prs' = prs
                     /\ accepted_any' = accepted_any
                     /\ UNCHANGED <<asked, the_visitor_data, the_data_sync_id>>
                ELSE /\ asked' = Ask(asked, client)
                     /\ the_visitor_data' =
                            KeepResolved(the_visitor_data, select_visitor_data(ytcfgs))
                     /\ the_data_sync_id' =
                            KeepResolved(the_data_sync_id, get_data_sync_id(ytcfgs))
                     /\ IF resp.err
                        THEN \* line 478: `.await?` returns the error
                             /\ pc' = "failed" /\ result' = "RequestError"
                             /\ actual_clients' = rest /\ prs' = prs
                             /\ accepted_any' = accepted_any
                        ELSE /\ pc' = "loop" /\ result' = result
                             /\ actual_clients' = rest \o app
                             /\ prs' = IF Accepted(resp)
                                       THEN PushPr(prs, PrEntry(client, resp.id_ok,
                                                                resp.age_gated))
                                       ELSE prs
                             /\ accepted_any' = (accepted_any \/ Accepted(resp))
    /\ UNCHANGED <<is_authenticated, is_premium_subscriber, is_music, initial_pr,
                   clients, webpage_ytcfg,
                   dedupVars, facadeVars, cipherVars, extraVars>>

\* lines 524-528: the loop has ended
Finish ==
    /\ pc = "loop"
    /\ actual_clients = <<>>
    /\ IF prs = <<>>
       THEN pc' = "failed" /\ result' = "NoPlayerResponse"
       ELSE pc' = "done" /\ result' = "Ok"
    /\ UNCHANGED <<is_authenticated, is_premium_subscriber, is_music, initial_pr,
                   registry, clients, actual_clients, prs, last, accepted_any,
                   webpage_ytcfg, asked, the_player_url, the_visitor_data, the_data_sync_id,
                   tried_iframe_fallback, iframe_fetches,
                   dedupVars, facadeVars, cipherVars, extraVars>>

Next == GetClients \/ BeginLoop \/ ClientStep \/ Finish

Spec == Init /\ [][Next]_vars

\* The runtime polls the extraction's future until it returns: a step that
\* can be taken is taken.
FairSpec == Spec /\ WF_vars(Next)

----------------------------------------------------------------------------
(* The de-duplication step of get_clients (extract.rs:345-348) applied to  *)
(* any candidate sequence.                                                 *)

RECURSIVE SeqsUpTo(_, _)
SeqsUpTo(S, n) ==
    IF n = 0 THEN {<<>>}
    ELSE LET shorter == SeqsUpTo(S, n - 1)
         IN  shorter \cup {Append(q, x) : q \in shorter, x \in S}

OrchIdle ==
    /\ is_authenticated = FALSE /\ is_premium_subscriber = FALSE
    /\ is_music = FALSE /\ initial_pr = "absent"
    /\ registry = [built |-> FALSE, m |-> EmptyMap]
    /\ clients = <<>> /\ actual_clients = <<>> /\ prs = <<>>
    /\ last = NoLast /\ accepted_any = FALSE /\ pc = "off" /\ result = "none"
    /\ LoopIdle

InitDedup ==
    /\ candidate \in SeqsUpTo(YtClient, MaxCand)
    /\ unique_clients = <<>>
    /\ dd_pc = "candidates"
    /\ OrchIdle /\ FacadeIdle /\ CipherIdle /\ ExtraIdle

Dedup ==
    /\ dd_pc = "candidates"
    /\ unique_clients' = UniqueClients(candidate)
    /\ dd_pc' = "emitted"
    /\ UNCHANGED <<candidate, orchVars, facadeVars, cipherVars,
                   extraVars>>

NextDedup == Dedup

SpecDedup == InitDedup /\ [][NextDedup]_vars

----------------------------------------------------------------------------
(* Concurrent invocations of the Extract methods of one facade.            *)

InitFacade ==
    /\ target \in Targets
    /\ task = [t \in Tasks |-> IdleTask]
    /\ holder = {}
    /\ waiters = <<>>
    /\ OrchIdle /\ DedupIdle /\ CipherIdle /\ ExtraIdle

\* A caller polls the future of one Extract method up to and including
\* `lock()`: it gets the guard, queues for it (tokio), or gets no guard
\* (std::sync::Mutex held by a suspended invocation of the same thread).
Call(t, op) ==
    /\ task[t].at = "idle"
    /\ IF LockFree(holder, waiters)
       THEN /\ holder' = {t}
            /\ task' = [task EXCEPT ![t] = [op |-> op, at |-> "running"]]
            /\ waiters' = waiters
       ELSE IF target = "native"
       THEN /\ waiters' = Append(waiters, t)
            /\ task' = [task EXCEPT ![t] = [op |-> op, at |-> "waiting"]]
            /\ holder' = holder
       ELSE /\ task' = [task EXCEPT ![t] = [op |-> op, at |-> "no_guard"]]
            /\ UNCHANGED <<holder, waiters>>
    /\ UNCHANGED <<target, orchVars, dedupVars, cipherVars,
                   extraVars>>

\* tokio's mutex hands a released guard to the longest-waiting task.
Grant ==
    /\ holder = {}
    /\ waiters # <<>>
    /\ holder' = {Head(waiters)}
    /\ waiters' = Tail(waiters)
    /\ task' = [task EXCEPT ![Head(waiters)].at = "running"]
    /\ UNCHANGED <<target, orchVars, dedupVars, cipherVars,
                   extraVars>>

\* `extractor.extract_*(..).await` reaches an await point that is pending.
Suspend(t) ==
    /\ task[t].at = "running"
    /\ task' = [task EXCEPT ![t].at = "suspended"]
    /\ UNCHANGED <<target, holder, waiters, orchVars, dedupVars, cipherVars,
                   extraVars>>

\* The pending await point completes and the task is polled again.
Resume(t) ==
    /\ task[t].at = "suspended"
    /\ task' = [task EXCEPT ![t].at = "running"]
    /\ UNCHANGED <<target, holder, waiters, orchVars, dedupVars, cipherVars,
                   extraVars>>

\* The async block returns; `extractor` (the guard) is dropped.
Return(t) ==
    /\ task[t].at = "running"
    /\ task' = [task EXCEPT ![t].at = "returned"]
    /\ holder' = holder \ {t}
    /\ UNCHANGED <<target, waiters, orchVars, dedupVars, cipherVars,
                   extraVars>>

\* A future dropped while it owns the guard keeps owning it.
DroppedGuard_Leaked(h, t) == h

\* Dropping the future of an invocation drops its locals, the guard
\* `extractor` among them (tydle.rs:237-243).
DroppedGuard(h, t) == h \ {t}

\* Dropping the future of a queued invocation takes it out of the queue.
RECURSIVE Without(_, _)
Without(w, t) ==
    IF w = <<>> THEN <<>>
    ELSE IF Head(w) = t THEN Without(Tail(w), t)
    ELSE <<Head(w)>> \o Without(Tail(w), t)

\* The caller drops the future of an invocation at one of its suspension
\* points: in `lock().await` or in `extractor.extract_*(..).await`.
Cancel(t) ==
    /\ task[t].at \in {"waiting", "suspended"}
    /\ task' = [task EXCEPT ![t].at = "cancelled"]
    /\ holder' = DroppedGuard(holder, t)
    /\ waiters' = Without(waiters, t)
    /\ UNCHANGED <<target, orchVars, dedupVars, cipherVars, extraVars>>

NextFacade ==
    \/ \E t \in Tasks, op \in ExtractOps : Call(t, op)
    \/ Grant
    \/ \E t \in Tasks : Suspend(t)
    \/ \E t \in Tasks : Resume(t)
    \/ \E t \in Tasks : Return(t)
    \/ \E t \in Tasks : Cancel(t)

SpecFacade == InitFacade /\ [][NextFacade]_vars

\* The runtime polls a queued invocation that the mutex has woken.
FairFacade == SpecFacade /\ WF_vars(Grant)

----------------------------------------------------------------------------
(* load_player and decipher over the shared caches.                        *)

InitCipher ==
    /\ player_cache = EmptyMap
    /\ code_cache = EmptyMap
    /\ solver_runs = {}
    /\ dc = NoCall
    /\ OrchIdle /\ DedupIdle /\ FacadeIdle /\ ExtraIdle

\* What the GET of a player URL answers: a failed request, or the text of
\* the body, which can be empty.
PlayerDownloads == {Err("request failed"), Ok(""), Ok("player.js")}

\* A load_player that neither reads nor writes the cache.
load_player_Uncached(cc, player_url, download) ==
    [result |-> download, fetched |-> TRUE, cc |-> cc]

\* player.rs:207-223: load_player on the code cache cc; `fetched` tells
\* whether the GET was issued, `cc` is code_cache afterwards.
load_player(cc, player_url, download) ==
    LET player_js_key == player_js_cache_key(player_url)
    IN  IF player_js_key = <<>>
        THEN [result |-> Err("Cannot identify player"), fetched |-> FALSE, cc |-> cc]
        ELSE IF player_js_key \in DOMAIN cc
        THEN [result |-> Ok(cc[player_js_key]), fetched |-> FALSE, cc |-> cc]
        ELSE IF ~download.ok
        THEN [result |-> download, fetched |-> TRUE, cc |-> cc]
        ELSE [result |-> download, fetched |-> TRUE,
              cc |-> IF download.val[1] # ""
                     THEN CacheAdd(cc, player_js_key, download.val[1])
                     ELSE cc]

\* One load_player call of an extraction; here every player URL serves the
\* same script.
LoadPlayer ==
    /\ \E player_url \in PlayerUrls, download \in PlayerDownloads :
         code_cache' = load_player(code_cache, player_url, download).cc
    /\ UNCHANGED <<player_cache, solver_runs, dc, orchVars, dedupVars, facadeVars,
                   extraVars>>

\* The end of a decipher call.
Ended(f, p, outcome, out, runs, cc) ==
    /\ dc' = [fields |-> f, player_url |-> p, outcome |-> outcome, out |-> out,
              ran |-> runs, reran |-> runs \cap solver_runs]
    /\ solver_runs' = solver_runs \cup runs
    /\ code_cache' = cc
    /\ UNCHANGED <<player_cache, orchVars, dedupVars, facadeVars,
                   extraVars>>

\* decipher.rs:122-132: the match on the parameter n of the signed URL.
\* d1 is the outcome of the signature's decrypt_signature, o2 the way the
\* solver run for n ends ("ok" when none is made).
DecipherN(f, player_url, url_with_sig, found, d1, run1) ==
    IF <<"n">> \notin DOMAIN found
    THEN Ended(f, player_url, "ok", url_with_sig, run1, d1.cc)
    ELSE \E o2 \in SolverOutcomes :
           LET d2 == decrypt_signature("n", found[<<"n">>], player_url,
                                       player_cache, d1.cc, o2)
               run2 == IF d2.ran THEN {CacheId("n", player_url, found[<<"n">>])}
                       ELSE {}
           IN  /\ IF d2.ran THEN Feasible(d1.cc, o2) ELSE o2 = "ok"
               /\ IF d2.err # "none"
                  THEN Ended(f, player_url, d2.err, <<>>, run1 \cup run2, d2.cc)
                  ELSE \E out \in replace_n_sig_query_param(url_with_sig, d2.value) :
                         Ended(f, player_url, "ok", out, run1 \cup run2, d2.cc)

\* decipher.rs:111-121: the signed URL is composed.
DecipherSigned(f, player_url, sc, d1, run1, url_with_sig) ==
    IF d1.err # "none"
    THEN Ended(f, player_url, d1.err, <<>>, run1, d1.cc)
    ELSE DecipherN(f, player_url, url_with_sig, parse_query_string(url_with_sig),
                   d1, run1)

\* decipher.rs:103-113: the fields url and s are required; o1 is the way
\* the solver run for the signature ends ("ok" when none is made).
DecipherParsed(f, player_url, sc) ==
    IF ~(<<"url">> \in DOMAIN sc /\ <<"s">> \in DOMAIN sc)
    THEN Ended(f, player_url, "missing_url_or_s", <<>>, {}, code_cache)
    ELSE \E o1 \in SolverOutcomes :
           LET d1 == decrypt_signature("sig", sc[<<"s">>], player_url,
                                       player_cache, code_cache, o1)
           IN  /\ IF d1.ran THEN Feasible(code_cache, o1) ELSE o1 = "ok"
               /\ DecipherSigned(
                      f, player_url, sc, d1,
                      IF d1.ran THEN {CacheId("sig", player_url, sc[<<"s">>])} ELSE {},
                      sc[<<"url">>] \o <<"&">>
                        \o (IF <<"sp">> \in DOMAIN sc THEN sc[<<"sp">>]
                            ELSE <<"signature">>)
                        \o <<"=">> \o d1.value)

\* decipher.rs:100-133: decipher(signature, player_url)
Decipher ==
    \E f \in CipherFields, player_url \in PlayerUrls :
        DecipherParsed(f, player_url, parse_query_string(SignatureOf(f)))

NextCipher == LoadPlayer \/ Decipher

SpecCipher == InitCipher /\ [][NextCipher]_vars

----------------------------------------------------------------------------
(* One CacheStore called through CacheAccess (cache.rs:42-57).             *)

CacheKeys == {"k1", "k2"}
CacheValues == {"v1", "v2", "v3"}

InitCache ==
    /\ store = EmptyMap
    /\ first_added = EmptyMap
    /\ store_op = NoStoreOp
    /\ OrchIdle /\ DedupIdle /\ FacadeIdle /\ CipherIdle /\ PureIdle /\ JarIdle

\* cache.rs:50-52: add is HashMap::insert.
Add(k, v) ==
    /\ store' = CacheAdd(store, k, v)
    /\ first_added' = IF k \in DOMAIN first_added THEN first_added
                      ELSE (k :> v) @@ first_added
    /\ store_op' = [method |-> "add", key |-> k, value |-> v, returned |-> <<>>]
    /\ UNCHANGED <<orchVars, dedupVars, facadeVars, cipherVars, pureVars, jarVars>>

\* cache.rs:46-48
Get(k) ==
    /\ store_op' = [method |-> "get", key |-> k, value |-> "",
                    returned |-> IF k \in DOMAIN store THEN <<store[k]>> ELSE <<>>]
    /\ UNCHANGED <<store, first_added, orchVars, dedupVars, facadeVars, cipherVars,
                   pureVars, jarVars>>

\* cache.rs:54-56
Contains(k) ==
    /\ store_op' = [method |-> "contains", key |-> k, value |-> "",
                    returned |-> IF k \in DOMAIN store THEN <<"true">> ELSE <<"false">>]
    /\ UNCHANGED <<store, first_added, orchVars, dedupVars, facadeVars, cipherVars,
                   pureVars, jarVars>>

NextCache ==
    \/ \E k \in CacheKeys, v \in CacheValues : Add(k, v)
    \/ \E k \in CacheKeys : Get(k)
    \/ \E k \in CacheKeys : Contains(k)

SpecCache == InitCache /\ [][NextCache]_vars

----------------------------------------------------------------------------
(* Functions applied to one argument.                                      *)

\* auth.rs:118-128.  A data-sync-id is a sequence of tokens: the separator
\* "||" and pieces that are non-empty and hold no separator.
\* splitn(2, "||") always yields a first part, so the last match arm is
\* never taken.
parse_data_sync_id(data_sync_id) ==
    LET i == Find(data_sync_id, "||")
        first == IF i = 0 THEN data_sync_id ELSE SubSeq(data_sync_id, 1, i - 1)
        second == IF i = 0 THEN None
                  ELSE Some(SubSeq(data_sync_id, i + 1, Len(data_sync_id)))
    IN  IF second.some /\ second.val # <<>>
        THEN <<Some(first), second>>
        ELSE <<None, Some(first)>>

\* yt_interface.rs:164: the length VideoId::new requires.
VideoIdLen == 11

\* A string given to VideoId::new, as the number of its characters of each
\* kind: ASCII letters and digits, '-', '_', other ASCII characters, and
\* characters that take two or three bytes in UTF-8.  VideoId::new looks at
\* nothing else of the string.
IdStrings ==
    { str \in [alnum : 0..MaxIdChars, dash : 0..MaxRare, underscore : 0..MaxRare,
               ascii_other : 0..MaxRare, utf8_2 : 0..MaxRare, utf8_3 : 0..MaxRare] :
        str.alnum + str.dash + str.underscore + str.ascii_other
          + str.utf8_2 + str.utf8_3 <= MaxIdChars }

\* String::len: the length in bytes.
ByteLen(str) ==
    str.alnum + str.dash + str.underscore + str.ascii_other
      + 2 * str.utf8_2 + 3 * str.utf8_3

\* chars().all(|c| c.is_ascii_alphanumeric() || c == '-' || c == '_')
AllIdChars(str) == str.ascii_other = 0 /\ str.utf8_2 = 0 /\ str.utf8_3 = 0


\* A construction that checks the length only.
VideoId_new_LengthOnly(str) ==
    IF ByteLen(str) # VideoIdLen THEN Err("invalid length") ELSE Ok(str)

\* yt_interface.rs:161-180: VideoId::new
VideoId_new(str) ==
    IF ByteLen(str) # VideoIdLen THEN Err("invalid length")
    ELSE IF ~AllIdChars(str) THEN Err("invalid characters")
    ELSE Ok(str)

\* `parts.join(sep)` on a list of strings; sep is a string too.
RECURSIVE join(_, _)
join(parts, sep) ==
    IF parts = <<>> THEN <<>>
    ELSE IF Len(parts) = 1 THEN Head(parts)
    ELSE Head(parts) \o sep \o join(Tail(parts), sep)

\* The values of a map in one iteration order.
ValuesIn(m, order) == [i \in 1..Len(order) |-> m[order[i]]]

\* The SHA-1 digest of a byte string, kept symbolic: different inputs give
\* different digests.
Sha1(bytes) == [sha1_of |-> bytes]

\* The clock readings, in milliseconds since the epoch.
MaxClock == 2
Clock == {1000 * s + ms : s \in 1..MaxClock, ms \in {0, 499, 500}}

\* `epoch_duration.as_secs_f64().round()`: the nearest whole second.
time_stamp(now) == (now + 500) \div 1000

\* What make_sid_authorization computes: the text that is hashed, the digest,
\* and the token it returns.  `order` is the iteration order of
\* `additional_parts`.
SidHashInput(sid, origin, additional_parts, order, now) ==
    join((IF order # <<>>
          THEN <<join(ValuesIn(additional_parts, order), <<":">>)>>
          ELSE <<>>)
         \o <<(<<ToString(time_stamp(now))>>), sid, origin>>, <<" ">>)

sid_hash(sid, origin, additional_parts, order, now) ==
    Sha1(SidHashInput(sid, origin, additional_parts, order, now))

make_sid_authorization(scheme, sid, origin, additional_parts, order, now) ==
    <<scheme, " ">>
    \o join(IF order # <<>>
            THEN <<join(ValuesIn(additional_parts, order), <<>>)>>
            ELSE <<>>, <<"_">>)

\* Option::or_else and HashMap::get(..).cloned().
or_else(a, b) == IF a.some THEN a ELSE b
MapGet(m, k) == IF k \in DOMAIN m THEN Some(m[k]) ELSE None

\* get_sid_cookies: the three slots, in the order of the loop of
\* get_sid_authorization_header.
get_sid_cookies(yt_cookies) ==
    << or_else(MapGet(yt_cookies, "SAPISID"), MapGet(yt_cookies, "__Secure-3PAPISID")),
       MapGet(yt_cookies, "__Secure-1PAPISID"),
       MapGet(yt_cookies, "__Secure-3PAPISID") >>

SidSchemes == <<"SAPISIDHASH", "SAPISID1PHASH", "SAPISID3PHASH">>

\* The `additional_parts` map of get_sid_authorization_header.
AdditionalParts(user_session_id) ==
    IF user_session_id.some THEN ("u" :> user_session_id.val) ELSE EmptyMap

\* The authorizations pushed by the loop over the three slots, from slot i on.
RECURSIVE Authorizations(_, _, _, _, _)
Authorizations(i, slots, origin, user_session_id, now) ==
    IF i > Len(slots) THEN <<>>
    ELSE (IF slots[i].some
          THEN <<make_sid_authorization(
                    SidSchemes[i], slots[i].val,
                    IF origin.some THEN origin.val ELSE YT_URL,
                    AdditionalParts(user_session_id),
                    IF user_session_id.some THEN <<"u">> ELSE <<>>, now)>>
          ELSE <<>>)
         \o Authorizations(i + 1, slots, origin, user_session_id, now)

get_sid_authorization_header(yt_cookies, origin, user_session_id, now) ==
    IF Authorizations(1, get_sid_cookies(yt_cookies), origin, user_session_id, now) = <<>>
    THEN Ok(None)
    ELSE Ok(Some(join(Authorizations(1, get_sid_cookies(yt_cookies), origin,
                                     user_session_id, now), <<" ">>)))

\* The cookie maps the header is built from.
SidCookieNames == {"SAPISID", "__Secure-1PAPISID", "__Secure-3PAPISID"}
SidValue(name) == <<"value_of_" \o name>>
CookieMaps == {[n \in S |-> SidValue(n)] : S \in SUBSET SidCookieNames}


\* The texts player_js_cache_key is called with: with or without an origin,
\* a directory, a player id, possibly a second id under "/player", and the
\* name of the script.
PlayerUrlTexts ==
    { origin \o dir \o id \o second \o tail :
        origin \in {<<>>, <<Origin>>},
        dir \in {<<>>, <<"/", "s", "/", "player">>, <<"/", "yts", "/", "jsbin">>},
        id \in {<<>>, <<"/", "0a1b2c3d">>, <<"/", "abc">>, <<"/", "player-vflABC123">>},
        second \in {<<>>, <<"/", "player", "/", "4e5f6a7b">>},
        tail \in {<<>>, MainPlayerTail, <<"/", "player_ias.vflset", "/", "base.js">>,
                  <<"/", "tv-player-ias.vflset", "/", "tv-player-ias.js">>,
                  <<"/", "player.js">>, <<"/", "watch">>} }

\* The Result of player_js_cache_key: the `?` of get_player_id_and_path
\* hands on the error of extract_player_info, then that of Url::parse.
PlayerJsCacheKeyResult(player_url) ==
    IF extract_player_info(player_url) = <<>> THEN Err("Cannot identify player")
    ELSE IF ~UrlParses(player_url) THEN Err("relative URL without a base")
    ELSE Ok(player_js_cache_key(player_url))

\* The number of invocations on one URL.
MaxCalls == 2

Called(f) == [fn |-> f, at |-> "called"]
Returned(f) == [fn |-> f, at |-> "returned"]

\* A JSON value as extract_signature_timestamp reads it: an integer, a
\* number with a fraction, or a string.  An i64 is kept as <<n>>.
JsonInt(n) == [kind |-> "i64", int |-> <<n>>, text |-> <<>>]
JsonFloat(t) == [kind |-> "f64", int |-> <<>>, text |-> t]
JsonStr(t) == [kind |-> "string", int |-> <<>>, text |-> t]

\* serde_json::Value::as_i64
as_i64(v) == IF v.kind = "i64" THEN Some(v.int) ELSE None

\* The decimal digits, and the number a sequence of them writes.
DecimalDigits == <<"0", "1", "2", "3", "4", "5", "6", "7", "8", "9">>
IsDigit(c) == \E d \in 1..Len(DecimalDigits) : DecimalDigits[d] = c
DigitValue(c) == (CHOOSE d \in 1..Len(DecimalDigits) : DecimalDigits[d] = c) - 1
RECURSIVE DecimalValue(_)
DecimalValue(text) ==
    IF text = <<>> THEN 0
    ELSE 10 * DecimalValue(SubSeq(text, 1, Len(text) - 1)) + DigitValue(text[Len(text)])

\* str::parse::<i64> of a text without a sign.
parse_i64(text) ==
    IF text # <<>> /\ \A i \in 1..Len(text) : IsDigit(text[i])
    THEN Ok(<<DecimalValue(text)>>)
    ELSE Err("invalid digit found in string")

\* player.rs:241-242: the leftmost match of
\* (?:signatureTimestamp|sts)\s*:\s*(?P<sts>[0-9]{5}) in the code, a sequence
\* of words, ":" and digits; the five digits captured, <<>> without a match.
StsMatchesAt(code, i) ==
    /\ i + 6 <= Len(code)
    /\ code[i] \in {"signatureTimestamp", "sts"}
    /\ code[i + 1] = ":"
    /\ \A j \in (i + 2)..(i + 6) : IsDigit(code[j])

StsCaptured(code) ==
    IF \E i \in 1..Len(code) : StsMatchesAt(code, i)
    THEN LET i == CHOOSE k \in 1..Len(code) :
                    /\ StsMatchesAt(code, k)
                    /\ \A j \in 1..(k - 1) : ~StsMatchesAt(code, j)
         IN  SubSeq(code, i + 2, i + 6)
    ELSE <<>>

\* player.rs:225-255.  sts is ytcfg.get("STS"), memo the Result of
\* load_player_data_from_cache("sts", player_url), loaded that of load_player.
extract_signature_timestamp(sts, memo, loaded) ==
    IF sts.some THEN Ok(as_i64(sts.val))
    ELSE IF ~memo.ok THEN memo
    ELSE IF memo.val[1].some
    THEN IF parse_i64(memo.val[1].val).ok
         THEN Ok(Some(parse_i64(memo.val[1].val).val[1]))
         ELSE parse_i64(memo.val[1].val)
    ELSE IF ~loaded.ok THEN loaded
    ELSE IF StsCaptured(loaded.val[1]) = <<>> THEN Ok(None)
    ELSE IF parse_i64(StsCaptured(loaded.val[1])).ok
    THEN Ok(Some(parse_i64(StsCaptured(loaded.val[1])).val[1]))
    ELSE parse_i64(StsCaptured(loaded.val[1]))

\* The inputs of extract_signature_timestamp.
StsValues ==
    { None, Some(JsonInt(20348)), Some(JsonStr(<<"2", "0", "3", "4", "8">>)),
      Some(JsonFloat(<<"2", "0", "3", "4", "8", ".", "5">>)) }
StsMemos ==
    { Err("Cannot identify player"), Ok(None),
      Ok(Some(<<"1", "9", "8", "3", "4">>)), Ok(Some(<<"n", "a", "n">>)) }
PlayerCodes ==
    { <<>>,
      <<"var", "a", "sts", ":", "1", "9", "9", "0", "1", ",", "x">>,
      <<"signatureTimestamp", ":", "0", "1", "9", "9", "0", "2">>,
      <<"sts", ":", "1", "9", "9">>,
      <<"function", "(", ")", "{", "}">> }
StsLoads == {Err("request failed")} \cup {Ok(code) : code \in PlayerCodes}

\* load_player fails where player_js_cache_key failed for the memo.
StsInputs ==
    { in \in StsValues \X StsMemos \X StsLoads : ~in[2].ok => ~in[3].ok }

\* The first ytcfg of the list with a string under target_key inside one of
\* its values (the loops of auth.rs:104-110 and 154-160).
RECURSIVE FirstKeyFound(_, _)
FirstKeyFound(ytcfgs, target_key) ==
    IF ytcfgs = <<>> THEN None
    ELSE IF find_key(Head(ytcfgs), target_key).some
    THEN find_key(Head(ytcfgs), target_key)
    ELSE FirstKeyFound(Tail(ytcfgs), target_key)

\* auth.rs:103-116
get_delegated_session_id(ytcfgs) ==
    IF FirstKeyFound(ytcfgs, "DELEGATED_SESSION_ID").some
    THEN FirstKeyFound(ytcfgs, "DELEGATED_SESSION_ID")
    ELSE IF get_data_sync_id(ytcfgs).some
    THEN parse_data_sync_id(get_data_sync_id(ytcfgs).val)[1]
    ELSE None

\* auth.rs:153-166
get_user_session_id(ytcfgs) ==
    IF FirstKeyFound(ytcfgs, "USER_SESSION_ID").some
    THEN FirstKeyFound(ytcfgs, "USER_SESSION_ID")
    ELSE IF get_data_sync_id(ytcfgs).some
    THEN parse_data_sync_id(get_data_sync_id(ytcfgs).val)[2]
    ELSE None

\* player.rs:292-303: the delegated and the user session id that
\* extract_player_response hands to generate_api_headers.
\* data_sync_id.clone().unwrap_or_default() is "" for None.
SessionIds(sync_id, ytcfgs) ==
    LET parsed == parse_data_sync_id(IF sync_id.some THEN sync_id.val ELSE <<>>)
    IN  << IF parsed[1].some THEN parsed[1] ELSE get_delegated_session_id(ytcfgs),
           IF parsed[2].some THEN parsed[2] ELSE get_user_session_id(ytcfgs) >>

\* The inputs of lines 292-303: the data-sync-id of the loop, and a webpage
\* ytcfg with or without session ids at its top level and inside a value.
SyncIds ==
    { None, Some(<<"delegated", "||", "user">>), Some(<<"user", "||">>),
      Some(<<"user">>) }
SessionYtcfgs ==
    { YtcfgWith(paths) :
        paths \in SUBSET { <<"USER_SESSION_ID">>,
                           <<"INNERTUBE_CONTEXT", "USER_SESSION_ID">>,
                           <<"DELEGATED_SESSION_ID">>, <<"DATASYNC_ID">>,
                           <<"INNERTUBE_CONTEXT", "DATASYNC_ID">> } }

\* auth.rs:168-181: the SESSION_INDEX of the first ytcfg that has one, read
\* as a string and parsed; 0 when it does not parse.
RECURSIVE get_session_index(_)
get_session_index(ytcfgs) ==
    IF ytcfgs = <<>> THEN None
    ELSE IF <<"SESSION_INDEX">> \in DOMAIN Head(ytcfgs)
    THEN LET parsed == parse_i64(Head(ytcfgs)[<<"SESSION_INDEX">>])
         IN  Some(IF parsed.ok THEN parsed.val[1] ELSE <<0>>)
    ELSE get_session_index(Tail(ytcfgs))

\* i32::to_string of a number that is not negative.
RECURSIVE to_string(_)
to_string(n) ==
    IF n < 10 THEN <<DecimalDigits[n + 1]>>
    ELSE to_string(n \div 10) \o <<DecimalDigits[(n % 10) + 1]>>

\* serde_json::Value::as_bool().unwrap_or_default() of a value the ytcfg
\* holds; the boolean true is written <<"true">>.
as_bool(v) == v = <<"true">>

\* HashMap::insert on the map of headers.
insert(headers, name, value) == (name :> value) @@ headers

\* auth.rs:183-232.  The cookies and the clock are those
\* get_sid_authorization_header reads.
generate_cookie_auth_headers(yt_cookies, ytcfg, delegated_session_id, user_session_id, session_index, origin, now) ==
    LET delegated_sess_id ==
            IF ~delegated_session_id.some
            THEN get_delegated_session_id(<<ytcfg>>)
            ELSE None
        h1 == IF delegated_sess_id.some
              THEN insert(EmptyYtcfg, "X-Goog-PageId", delegated_sess_id.val)
              ELSE EmptyYtcfg
        sess_index == IF session_index.some THEN session_index
                      ELSE get_session_index(<<ytcfg>>)
        h2 == IF delegated_sess_id.some \/ sess_index.some
              THEN insert(h1, "X-Goog-AuthUser",
                          to_string(IF sess_index.some THEN sess_index.val[1] ELSE 0))
              ELSE h1
        user_sess_id == IF user_session_id.some THEN user_session_id
                        ELSE get_user_session_id(<<ytcfg>>)
        auth == get_sid_authorization_header(yt_cookies, Some(origin),
                                             user_sess_id, now)
        h3 == IF ~auth.ok THEN h2
              ELSE IF auth.val[1].some
              THEN insert(insert(h2, "Authorization", auth.val[1].val),
                          "X-Origin", origin)
              ELSE h2
        h4 == IF <<"LOGGED_IN">> \in DOMAIN ytcfg /\ as_bool(ytcfg[<<"LOGGED_IN">>])
              THEN insert(h3, "X-Youtube-Bootstrap-Logged-In", <<"true">>)
              ELSE h3
    IN  IF auth.ok THEN Ok(h4) ELSE Err(auth.err)

\* The calls of generate_cookie_auth_headers: a ytcfg with or without a
\* delegated session id, a session index and the logged-in flag, and each
\* of the three optional arguments passed or not.
HeaderYtcfgs ==
    { YtcfgWith(paths) :
        paths \in SUBSET { <<"INNERTUBE_CONTEXT", "DELEGATED_SESSION_ID">>,
                           <<"INNERTUBE_CONTEXT", "DATASYNC_ID">>,
                           <<"SESSION_INDEX">>, <<"LOGGED_IN">> } }
HeaderCalls ==
    [ yt_cookies : {[n \in {} |-> <<>>], [n \in {"SAPISID"} |-> SidValue(n)]},
      ytcfg : HeaderYtcfgs,
      delegated_session_id : {None, Some(<<"delegated-passed">>)},
      user_session_id : {None, Some(<<"user-passed">>)},
      session_index : {None, Some(<<2>>)},
      origin : {<<Origin>>},
      now : {1000} ]

InitPure ==
    /\ \/ /\ fn_pc = Called("parse_data_sync_id")
          /\ arg \in SeqsUpTo({"A", "B", "||"}, MaxSyncLen)
       \/ /\ fn_pc = Called("VideoId::new")
          /\ arg \in IdStrings
       \/ /\ fn_pc = Called("get_sid_authorization_header")
          /\ arg \in CookieMaps \X {None, Some(<<"origin">>)}
                     \X {None, Some(<<"session">>)} \X Clock
       \/ /\ fn_pc = Called("player_js_cache_key")
          /\ arg \in PlayerUrlTexts
       \/ /\ fn_pc = Called("extract_player_response")
          /\ arg \in SyncIds \X SessionYtcfgs
       \/ /\ fn_pc = Called("get_base")
          /\ arg \in {<<c>> : c \in YtClient}
       \/ /\ fn_pc = Called("generate_cookie_auth_headers")
          /\ arg \in HeaderCalls
       \/ /\ fn_pc = Called("extract_signature_timestamp")
          /\ arg \in StsInputs
    /\ ret = <<>>
    /\ OrchIdle /\ DedupIdle /\ FacadeIdle /\ CipherIdle /\ CacheIdle /\ JarIdle

ParseDataSyncId ==
    /\ fn_pc = Called("parse_data_sync_id")
    /\ ret' = parse_data_sync_id(arg)
    /\ fn_pc' = Returned("parse_data_sync_id")
    /\ UNCHANGED <<arg, orchVars, dedupVars, facadeVars, cipherVars, cacheVars, jarVars>>

VideoIdNew ==
    /\ fn_pc = Called("VideoId::new")
    /\ ret' = VideoId_new(arg)
    /\ fn_pc' = Returned("VideoId::new")
    /\ UNCHANGED <<arg, orchVars, dedupVars, facadeVars, cipherVars, cacheVars, jarVars>>

GetSidAuthorizationHeader ==
    /\ fn_pc = Called("get_sid_authorization_header")
    /\ ret' = get_sid_authorization_header(arg[1], arg[2], arg[3], arg[4])
    /\ fn_pc' = Returned("get_sid_authorization_header")
    /\ UNCHANGED <<arg, orchVars, dedupVars, facadeVars, cipherVars, cacheVars, jarVars>>

\* One invocation of player_js_cache_key; ret collects the results of the
\* invocations on the same URL.
PlayerJsCacheKey ==
    /\ fn_pc = Called("player_js_cache_key")
    /\ ret' = Append(ret, PlayerJsCacheKeyResult(arg))
    /\ fn_pc' = IF Len(ret') < MaxCalls THEN fn_pc ELSE Returned("player_js_cache_key")
    /\ UNCHANGED <<arg, orchVars, dedupVars, facadeVars, cipherVars, cacheVars, jarVars>>

ExtractSignatureTimestamp ==
    /\ fn_pc = Called("extract_signature_timestamp")
    /\ ret' = extract_signature_timestamp(arg[1], arg[2], arg[3])
    /\ fn_pc' = Returned("extract_signature_timestamp")
    /\ UNCHANGED <<arg, orchVars, dedupVars, facadeVars, cipherVars, cacheVars, jarVars>>

\* The session ids of one extract_player_response call for the client of
\* the webpage, whose initial player response holds no session id.
ExtractSessionIds ==
    /\ fn_pc = Called("extract_player_response")
    /\ ret' = SessionIds(arg[1], <<arg[2], EmptyYtcfg, arg[2]>>)
    /\ fn_pc' = Returned("extract_player_response")
    /\ UNCHANGED <<arg, orchVars, dedupVars, facadeVars, cipherVars, cacheVars, jarVars>>

GenerateCookieAuthHeaders ==
    /\ fn_pc = Called("generate_cookie_auth_headers")
    /\ ret' = generate_cookie_auth_headers(arg.yt_cookies, arg.ytcfg,
                    arg.delegated_session_id, arg.user_session_id,
                    arg.session_index, arg.origin, arg.now)
    /\ fn_pc' = Returned("generate_cookie_auth_headers")
    /\ UNCHANGED <<arg, orchVars, dedupVars, facadeVars, cipherVars, cacheVars, jarVars>>

\* get_base and get_variant of one client.
SplitClientName ==
    /\ fn_pc = Called("get_base")
    /\ ret' = [base |-> get_base(arg[1]), variant |-> get_variant(arg[1])]
    /\ fn_pc' = Returned("get_base")
    /\ UNCHANGED <<arg, orchVars, dedupVars, facadeVars, cipherVars, cacheVars, jarVars>>

NextPure ==
    \/ SplitClientName
    \/ GenerateCookieAuthHeaders
    \/ ExtractSessionIds
    \/ ExtractSignatureTimestamp
    \/ ParseDataSyncId
    \/ VideoIdNew
    \/ GetSidAuthorizationHeader
    \/ PlayerJsCacheKey

SpecPure == InitPure /\ [][NextPure]_vars

----------------------------------------------------------------------------
(* DomainCookies::header_value, and the split of a Cookie header back into
   pairs.  Here a string is a sequence of characters, so that the separator
   "; " is two characters and can also arise inside or across texts.  Of a
   Cookie only the name and the value are kept: header_value reads nothing
   else.                                                                    *)

MaxCookies == 2
MaxCookieText == 2

\* The characters of names and of values: a plain one, and those the header
\* syntax gives a meaning to.
NameChars == {"a", "="}
ValueChars == {"a", "=", ";", " "}
HeaderCookies ==
    [name : SeqsUpTo(NameChars, MaxCookieText), value : SeqsUpTo(ValueChars, MaxCookieText)]
CookieSets == SeqsUpTo(HeaderCookies, MaxCookies)

\* cookies.rs:96: format!("{}={}", c.name, c.value)
FormatCookie(c) == c.name \o <<"=">> \o c.value

header_value(cookies) ==
    join([i \in 1..Len(cookies) |-> FormatCookie(cookies[i])], <<";", " ">>)

\* str::find of a pattern: the first position where pat starts, 0 if none.
FindStr(s, pat) ==
    IF \E i \in 1..(Len(s) - Len(pat) + 1) : SubSeq(s, i, i + Len(pat) - 1) = pat
    THEN CHOOSE i \in 1..(Len(s) - Len(pat) + 1) :
            /\ SubSeq(s, i, i + Len(pat) - 1) = pat
            /\ \A j \in 1..(i - 1) : SubSeq(s, j, j + Len(pat) - 1) # pat
    ELSE 0

\* str::split(pat): the pieces between the occurrences of pat, left to right.
RECURSIVE SplitStr(_, _)
SplitStr(s, pat) ==
    IF FindStr(s, pat) = 0 THEN <<s>>
    ELSE <<SubSeq(s, 1, FindStr(s, pat) - 1)>>
         \o SplitStr(SubSeq(s, FindStr(s, pat) + Len(pat), Len(s)), pat)

\* The filter_map of get_cookies: splitn(2, '=') of each part; a part
\* without "=" gives no pair.
RECURSIVE PairsOfParts(_)
PairsOfParts(parts) ==
    IF parts = <<>> THEN <<>>
    ELSE (IF Find(Head(parts), "=") = 0 THEN <<>>
          ELSE << <<SubSeq(Head(parts), 1, Find(Head(parts), "=") - 1),
                    SubSeq(Head(parts), Find(Head(parts), "=") + 1, Len(Head(parts)))>> >>)
         \o PairsOfParts(Tail(parts))

\* The pairs get_cookies reads from a Cookie header, before they are
\* collected into the map.
CookiePairs(cookies_str) == PairsOfParts(SplitStr(cookies_str, <<";", " ">>))

\* get_cookies, from the header text on.
get_cookies(cookies_str) == CollectPairs(CookiePairs(cookies_str))

InitHeader ==
    /\ fn_pc = Called("header_value")
    /\ arg \in CookieSets
    /\ ret = <<>>
    /\ OrchIdle /\ DedupIdle /\ FacadeIdle /\ CipherIdle /\ CacheIdle /\ JarIdle

HeaderValue ==
    /\ fn_pc = Called("header_value")
    /\ ret' = header_value(arg)
    /\ fn_pc' = Returned("header_value")
    /\ UNCHANGED <<arg, orchVars, dedupVars, facadeVars, cipherVars, cacheVars, jarVars>>

NextHeader == HeaderValue

SpecHeader == InitHeader /\ [][NextHeader]_vars

----------------------------------------------------------------------------
(* The two functions that write a cache, called in any order on the caches
   of one facade: load_player by an extraction (player.rs:207-223) and
   get_js_modules by a decipher call (js.rs:33-74).  The extractor and the
   decipher each sit behind a mutex of the facade (tydle.rs:43-45), so two
   load_player calls never overlap, nor two get_js_modules calls, and the
   two functions write different keys.  player_cache has no writer.
   `arg` is the latest load_player call with the code each fingerprint
   gave to the earlier calls that succeeded; `ret` is what it returned.     *)

\* A GET of a player URL can also answer another text than the time before.
RepeatedDownloads == PlayerDownloads \cup {Ok("player.js, rebuilt")}

NoLoad == [player_url |-> <<>>, earlier |-> EmptyMap]
NoLoaded == [result |-> Err("not called"), fetched |-> FALSE]

\* The successes so far: those before the latest call, and the latest call.
Succeeded(call, returned) ==
    IF returned.result.ok /\ player_js_cache_key(call.player_url) \notin DOMAIN call.earlier
    THEN CacheAdd(call.earlier, player_js_cache_key(call.player_url),
                  returned.result.val[1])
    ELSE call.earlier

InitCaches ==
    /\ code_cache = EmptyMap /\ player_cache = EmptyMap
    /\ solver_runs = {} /\ dc = NoCall
    /\ fn_pc = Called("load_player")
    /\ arg = NoLoad
    /\ ret = NoLoaded
    /\ OrchIdle /\ DedupIdle /\ FacadeIdle /\ CacheIdle /\ JarIdle

LoadPlayerCall ==
    /\ \E player_url \in PlayerUrls, download \in RepeatedDownloads :
         LET loaded == load_player(code_cache, player_url, download)
         IN  /\ code_cache' = loaded.cc
             /\ arg' = [player_url |-> player_url, earlier |-> Succeeded(arg, ret)]
             /\ ret' = [result |-> loaded.result, fetched |-> loaded.fetched]
    /\ fn_pc' = Returned("load_player")
    /\ UNCHANGED <<player_cache, solver_runs, dc, orchVars, dedupVars, facadeVars,
                   cacheVars, jarVars>>

GetJsModules ==
    /\ \E outcome \in SolverOutcomes :
         /\ Feasible(code_cache, outcome)
         /\ code_cache' = get_js_modules(code_cache, outcome)
    /\ UNCHANGED <<player_cache, solver_runs, dc, pureVars, orchVars, dedupVars,
                   facadeVars, cacheVars, jarVars>>

NextCaches == LoadPlayerCall \/ GetJsModules

SpecCaches == InitCaches /\ [][NextCaches]_vars

----------------------------------------------------------------------------
(* Threads calling get_all and set on one CookieJar.  `hist` keeps the
   content of the jar after construction and after each complete set.       *)

InitJar ==
    /\ jar \in {<<>>} \cup {<<c>> : c \in JarCookies}
    /\ hist = <<jar>>
    /\ rw = [readers |-> {}, writer |-> {}]
    /\ thr = [t \in Threads |-> IdleThread]
    /\ OrchIdle /\ DedupIdle /\ FacadeIdle /\ CipherIdle /\ CacheIdle /\ PureIdle

JarFrame == UNCHANGED <<orchVars, dedupVars, facadeVars, cipherVars, cacheVars, pureVars>>

\* get_all(domain) is called.
CallGetAll(t, d) ==
    /\ thr[t].at = "idle"
    /\ thr' = [thr EXCEPT ![t] = [IdleThread EXCEPT !.op = "get_all", !.at = "called",
                                                   !.domain = d, !.from = Len(hist)]]
    /\ UNCHANGED <<jar, rw, hist>> /\ JarFrame

\* cookies.rs:123: self.cookies.read()
ReadLock(t) ==
    /\ thr[t].op = "get_all" /\ thr[t].at = "called"
    /\ ReadFree(rw)
    /\ rw' = [rw EXCEPT !.readers = @ \cup {t}]
    /\ thr' = [thr EXCEPT ![t].at = "locked"]
    /\ UNCHANGED <<jar, hist>> /\ JarFrame

\* cookies.rs:125-129: the cookies of the domain are cloned out of the jar.
Collect(t) ==
    /\ thr[t].op = "get_all" /\ thr[t].at = "locked"
    /\ thr' = [thr EXCEPT ![t].at = "collected",
                          ![t].ret = Ok(OfDomain(jar, thr[t].domain))]
    /\ UNCHANGED <<jar, rw, hist>> /\ JarFrame

\* cookies.rs:130: the read guard is dropped and get_all returns.
ReturnGetAll(t) ==
    /\ thr[t].op = "get_all" /\ thr[t].at = "collected"
    /\ rw' = [rw EXCEPT !.readers = @ \ {t}]
    /\ thr' = [thr EXCEPT ![t].at = "returned", ![t].upto = Len(hist)]
    /\ UNCHANGED <<jar, hist>> /\ JarFrame

\* set(cookie) is called.
CallSet(t, c) ==
    /\ thr[t].at = "idle"
    /\ Len(jar) + Cardinality({u \in Threads : thr[u].op = "set"}) < MaxJar
    /\ thr' = [thr EXCEPT ![t] = [IdleThread EXCEPT !.op = "set", !.at = "called",
                                                   !.cookie = c]]
    /\ UNCHANGED <<jar, rw, hist>> /\ JarFrame

\* cookies.rs:133: self.cookies.write()
WriteLock(t) ==
    /\ thr[t].op = "set" /\ thr[t].at = "called"
    /\ WriteFree(rw)
    /\ rw' = [rw EXCEPT !.writer = {t}]
    /\ thr' = [thr EXCEPT ![t].at = "locked"]
    /\ UNCHANGED <<jar, hist>> /\ JarFrame

\* cookies.rs:134: cookies.push(cookie), while the new slot is being written:
\* its value is not there yet.
PushBegin(t) ==
    /\ thr[t].op = "set" /\ thr[t].at = "locked"
    /\ jar' = Append(jar, [thr[t].cookie EXCEPT !.value = Unwritten])
    /\ thr' = [thr EXCEPT ![t].at = "pushing"]
    /\ UNCHANGED <<rw, hist>> /\ JarFrame

\* cookies.rs:134-136: the push completes, the write guard is dropped and
\* set returns.
ReturnSet(t) ==
    /\ thr[t].op = "set" /\ thr[t].at = "pushing"
    /\ jar' = [jar EXCEPT ![Len(jar)] = thr[t].cookie]
    /\ hist' = Append(hist, jar')
    /\ rw' = [rw EXCEPT !.writer = {}]
    /\ thr' = [thr EXCEPT ![t].at = "returned", ![t].ret = Ok(<<>>)]
    /\ JarFrame

\* The caller takes the result.
TakeResult(t) ==
    /\ thr[t].at = "returned"
    /\ thr' = [thr EXCEPT ![t] = IdleThread]
    /\ UNCHANGED <<jar, rw, hist>> /\ JarFrame

NextJar ==
    \/ \E t \in Threads, d \in Domains : CallGetAll(t, d)
    \/ \E t \in Threads : ReadLock(t)
    \/ \E t \in Threads : Collect(t)
    \/ \E t \in Threads : ReturnGetAll(t)
    \/ \E t \in Threads, c \in JarCookies : CallSet(t, c)
    \/ \E t \in Threads : WriteLock(t)
    \/ \E t \in Threads : PushBegin(t)
    \/ \E t \in Threads : ReturnSet(t)
    \/ \E t \in Threads : TakeResult(t)

SpecJar == InitJar /\ [][NextJar]_vars

-----------------------------------------------------------------------------
(* One caller of set and get_all on a CookieJar, and DomainCookies::get on
   what get_all returns.  The cookies differ in name, value and domain, so
   that a cookie can be told from another of the same name and domain.     *)

MaxStored == 3

CookieNames == {"SID", "HSID"}
StoredCookies == [name : CookieNames, value : {"1", "2"}, domain : Domains]

\* A set that replaces the stored cookie of the same name and domain.
CookieJar_set_Replacing(cookies, cookie) ==
    IF \E i \in 1..Len(cookies) :
           cookies[i].name = cookie.name /\ cookies[i].domain = cookie.domain
    THEN [i \in 1..Len(cookies) |->
             IF cookies[i].name = cookie.name /\ cookies[i].domain = cookie.domain
             THEN cookie ELSE cookies[i]]
    ELSE Append(cookies, cookie)

\* cookies.rs:132-137: cookies.push(cookie) under the write guard.
CookieJar_set(cookies, cookie) == Append(cookies, cookie)

\* cookies.rs:82-84: self.0.iter().find(|c| c.name == name)
RECURSIVE DomainCookies_get(_, _)
DomainCookies_get(cookies, name) ==
    IF cookies = <<>> THEN None
    ELSE IF Head(cookies).name = name THEN Some(Head(cookies))
    ELSE DomainCookies_get(Tail(cookies), name)

NoJarCall == [op |-> "none", cookie |-> <<>>, domain |-> "", before |-> <<>>]

\* The jar as new_with_cookies leaves it (cookies.rs:108-112).
InitCookies ==
    /\ jar \in SeqsUpTo(StoredCookies, 1)
    /\ hist = <<>>
    /\ rw = [readers |-> {}, writer |-> {}]
    /\ thr = [t \in {} |-> IdleThread]
    /\ fn_pc = Called("CookieJar") /\ arg = NoJarCall /\ ret = <<>>
    /\ OrchIdle /\ DedupIdle /\ FacadeIdle /\ CipherIdle /\ CacheIdle

\* set(cookie); `before` keeps the content of the jar at the call.
SetCookie(c) ==
    /\ Len(jar) < MaxStored
    /\ jar' = CookieJar_set(jar, c)
    /\ arg' = [NoJarCall EXCEPT !.op = "set", !.cookie = c, !.before = jar]
    /\ ret' = Ok(<<>>)
    /\ fn_pc' = Returned("set")
    /\ UNCHANGED <<hist, rw, thr, orchVars, dedupVars, facadeVars, cipherVars, cacheVars>>

\* get_all(domain), and get(name) of each name on the cookies returned.
GetAllCookies(d) ==
    /\ arg' = [NoJarCall EXCEPT !.op = "get_all", !.domain = d, !.before = jar]
    /\ ret' = [cookies |-> Ok(OfDomain(jar, d)),
               found |-> [n \in CookieNames |-> DomainCookies_get(OfDomain(jar, d), n)]]
    /\ fn_pc' = Returned("get_all")
    /\ UNCHANGED <<jar, hist, rw, thr, orchVars, dedupVars, facadeVars, cipherVars,
                   cacheVars>>

NextCookies ==
    \/ \E c \in StoredCookies : SetCookie(c)
    \/ \E d \in Domains : GetAllCookies(d)

SpecCookies == InitCookies /\ [][NextCookies]_vars

-----------------------------------------------------------------------------
(* Concurrent decipher_signature calls of one facade, polled by one thread
   (tydle.rs:308-324).  signature_decipher is a std::sync::Mutex on every
   build: its lock() does not suspend the future, it keeps the polling
   thread until the guard is free.  A task is "running" while the thread is
   inside its poll.                                                        *)

\* The pending await points one call passes at most: the GETs of
\* get_js_modules and the event loop of the embedded JS.
MaxAwaits == 2

IdleCall == [op |-> "none", at |-> "idle", awaits |-> 0]

\* The thread is in the executor, not inside the poll of a task.
ThreadFree == \A t \in Tasks : task[t].at \notin {"running", "parked"}

InitGuard ==
    /\ target \in Targets
    /\ task = [t \in Tasks |-> IdleCall]
    /\ holder = {}
    /\ waiters = <<>>
    /\ OrchIdle /\ DedupIdle /\ CipherIdle /\ ExtraIdle

\* The thread polls the future of a new call up to and including lock()
\* (lines 317-320).  With the guard free the call owns it.  With the guard
\* owned, by a call that is suspended since the thread is here, lock() parks
\* the thread (the futex mutex of the native build) or panics ("cannot
\* recursively acquire mutex", the mutex of the wasm32 build without
\* threads).
DecipherCall(t) ==
    /\ ThreadFree
    /\ task[t].at = "idle"
    /\ IF holder = {}
       THEN /\ holder' = {t}
            /\ task' = [task EXCEPT ![t] = [IdleCall EXCEPT !.op = "decipher_signature",
                                                           !.at = "running"]]
       ELSE /\ holder' = holder
            /\ task' = [task EXCEPT ![t] =
                          [IdleCall EXCEPT !.op = "decipher_signature",
                                           !.at = IF target = "native" THEN "parked"
                                                  ELSE "panicked"]]
    /\ UNCHANGED <<target, waiters, orchVars, dedupVars, cipherVars, extraVars>>

\* `signature_decipher.decipher(..).await` (line 321) reaches an await
\* point that is pending; the guard stays with the suspended call.
DecipherSuspend(t) ==
    /\ task[t].at = "running"
    /\ task[t].awaits < MaxAwaits
    /\ task' = [task EXCEPT ![t].at = "suspended", ![t].awaits = @ + 1]
    /\ UNCHANGED <<target, holder, waiters, orchVars, dedupVars, cipherVars, extraVars>>

\* The await point completes and the thread polls the call again.
DecipherResume(t) ==
    /\ ThreadFree
    /\ task[t].at = "suspended"
    /\ task' = [task EXCEPT ![t].at = "running"]
    /\ UNCHANGED <<target, holder, waiters, orchVars, dedupVars, cipherVars, extraVars>>

\* The async block returns and drops the guard; the unlock hands the guard
\* to a parked lock(), which returns.
DecipherReturn(t) ==
    /\ task[t].at = "running"
    /\ LET parked == {b \in Tasks : task[b].at = "parked"}
       IN  IF parked = {}
           THEN /\ holder' = holder \ {t}
                /\ task' = [task EXCEPT ![t].at = "returned"]
           ELSE \E b \in parked :
                    /\ holder' = {b}
                    /\ task' = [task EXCEPT ![t].at = "returned", ![b].at = "running"]
    /\ UNCHANGED <<target, waiters, orchVars, dedupVars, cipherVars, extraVars>>

NextGuard ==
    \/ \E t \in Tasks : DecipherCall(t)
    \/ \E t \in Tasks : DecipherSuspend(t)
    \/ \E t \in Tasks : DecipherResume(t)
    \/ \E t \in Tasks : DecipherReturn(t)

SpecGuard == InitGuard /\ [][NextGuard]_vars

\* A pending await point completes and the runtime polls the woken call; a
\* poll runs on.
FairGuard ==
    /\ SpecGuard
    /\ WF_vars(\E t \in Tasks : DecipherResume(t))
    /\ WF_vars(\E t \in Tasks : DecipherReturn(t))

-----------------------------------------------------------------------------
(* search_json and extract_ytcfg: the JSON objects mined from a watch page.
   A page is a sequence of characters; a word that holds no brace, quote or
   backslash ("ytInitialPlayerResponse", "ytcfg.set") is written as one
   element.  The pages hold no white space, so the \s* of the patterns match
   the empty text.                                                          *)

MaxPieces == 4

\* serde_json::from_str::<HashMap<String, Value>>: the decoder of a text
\* without white space and without commas.  A decoded value is a string, a
\* number or an object; `end` is the position after the value, 0 when the
\* text is not JSON there.
NoJson == [end |-> 0, val |-> <<>>]
JsonString(text) == [kind |-> "string", text |-> text, members |-> <<>>]
JsonNumber(digits) == [kind |-> "number", text |-> digits, members |-> <<>>]
JsonObject(members) == [kind |-> "object", text |-> <<>>, members |-> members]

\* The characters of a string from position i, which follows the opening
\* quote: up to the closing quote, with the escapes \" and \\ .
RECURSIVE ParseStr(_, _, _)
ParseStr(text, i, acc) ==
    IF i > Len(text) THEN NoJson
    ELSE IF text[i] = "\"" THEN [end |-> i + 1, val |-> acc]
    ELSE IF text[i] = "\\"
    THEN IF i + 1 <= Len(text) /\ text[i + 1] \in {"\"", "\\"}
         THEN ParseStr(text, i + 2, Append(acc, text[i + 1]))
         ELSE NoJson
    ELSE ParseStr(text, i + 1, Append(acc, text[i]))

RECURSIVE DigitsFrom(_, _)
DigitsFrom(text, i) ==
    IF i <= Len(text) /\ IsDigit(text[i])
    THEN <<text[i]>> \o DigitsFrom(text, i + 1)
    ELSE <<>>

RECURSIVE ParseValue(_, _)
RECURSIVE ParseObject(_, _)
ParseValue(text, i) ==
    IF i > Len(text) THEN NoJson
    ELSE IF text[i] = "\""
    THEN LET str == ParseStr(text, i + 1, <<>>)
         IN  IF str.end = 0 THEN NoJson
             ELSE [end |-> str.end, val |-> JsonString(str.val)]
    ELSE IF text[i] = "{"
    THEN LET obj == ParseObject(text, i)
         IN  IF obj.end = 0 THEN NoJson
             ELSE [end |-> obj.end, val |-> JsonObject(obj.val)]
    ELSE IF IsDigit(text[i])
    THEN [end |-> i + Len(DigitsFrom(text, i)),
          val |-> JsonNumber(DigitsFrom(text, i))]
    ELSE NoJson

\* An object from its opening brace at position i: no member, or one.
ParseObject(text, i) ==
    IF i + 1 > Len(text) \/ text[i] # "{" THEN NoJson
    ELSE IF text[i + 1] = "}" THEN [end |-> i + 2, val |-> EmptyMap]
    ELSE IF text[i + 1] # "\"" THEN NoJson
    ELSE LET key == ParseStr(text, i + 2, <<>>)
         IN  IF key.end = 0 \/ key.end > Len(text) THEN NoJson
             ELSE IF text[key.end] # ":" THEN NoJson
             ELSE LET v == ParseValue(text, key.end + 1)
                  IN  IF v.end = 0 \/ v.end > Len(text) THEN NoJson
                      ELSE IF text[v.end] # "}" THEN NoJson
                      ELSE [end |-> v.end + 1, val |-> (key.val :> v.val)]

from_str(text) ==
    IF ParseObject(text, 1).end = Len(text) + 1
    THEN Ok(ParseObject(text, 1).val)
    ELSE Err("decode")

\* Regex::find of a pattern that is a sequence of words: the position after
\* the leftmost occurrence, 0 without one.
MatchEnd(pattern, html) ==
    LET at == {i \in 1..(Len(html) - Len(pattern) + 1) :
                   SubSeq(html, i, i + Len(pattern) - 1) = pattern}
    IN  IF at = {} THEN 0
        ELSE (CHOOSE i \in at : \A j \in at : i <= j) + Len(pattern)

\* json.rs:140-189: the loop over the characters after the match.  It
\* returns the positions of the first brace and of the brace that brings the
\* depth back to 0, <<>> when the characters end before.
RECURSIVE Balance(_, _, _, _, _, _)
Balance(chars, i, json_start, depth, in_str, escape) ==
    IF i > Len(chars) THEN <<>>
    ELSE LET c == chars[i]
         IN  IF json_start = 0
             THEN IF c = "{" THEN Balance(chars, i + 1, i, 1, in_str, escape)
                  ELSE Balance(chars, i + 1, 0, depth, in_str, escape)
             ELSE IF in_str
             THEN IF escape THEN Balance(chars, i + 1, json_start, depth, TRUE, FALSE)
                  ELSE IF c = "\\"
                  THEN Balance(chars, i + 1, json_start, depth, TRUE, TRUE)
                  ELSE Balance(chars, i + 1, json_start, depth, c # "\"", FALSE)
             ELSE IF c = "\"" THEN Balance(chars, i + 1, json_start, depth, TRUE, escape)
             ELSE IF c = "{" THEN Balance(chars, i + 1, json_start, depth + 1, FALSE, escape)
             ELSE IF c = "}"
             THEN IF depth = 1 THEN <<json_start, i>>
                  ELSE Balance(chars, i + 1, json_start, depth - 1, FALSE, escape)
             ELSE Balance(chars, i + 1, json_start, depth, FALSE, escape)

\* json.rs:116-192 (extract.rs:153-229 is the same text), called without an
\* end pattern as player.rs:364 does; the match of an end pattern is
\* discarded at lines 177-181.
search_json(start_pattern, html, default) ==
    LET default_value == IF default.some THEN default.val ELSE EmptyMap
        start_pos == MatchEnd(start_pattern, html)
        chars == SubSeq(html, start_pos, Len(html))
        found == Balance(chars, 1, 0, 0, FALSE, FALSE)
    IN  IF start_pos = 0 THEN Ok(default_value)
        ELSE IF found = <<>> THEN Ok(default_value)
        ELSE IF from_str(SubSeq(chars, found[1], found[2])).ok
        THEN from_str(SubSeq(chars, found[1], found[2]))
        ELSE Ok(default_value)

\* The capture of ytcfg\.set\s*\(\s*({.+?})\s*\)\s*; in the page: from the
\* brace after the leftmost "ytcfg.set(" that has a match, to the first
\* brace after at least one character that ");" follows.  <<>> without a
\* match.
YtcfgMatches(page, i, j) ==
    /\ j >= i + 4 /\ j + 2 <= Len(page)
    /\ SubSeq(page, i, i + 2) = <<"ytcfg.set", "(", "{">>
    /\ SubSeq(page, j, j + 2) = <<"}", ")", ";">>

YtcfgCaptured(page) ==
    LET starts == {i \in 1..Len(page) : \E j \in 1..Len(page) : YtcfgMatches(page, i, j)}
    IN  IF starts = {} THEN <<>>
        ELSE LET i == CHOOSE k \in starts : \A m \in starts : k <= m
                 j == CHOOSE k \in 1..Len(page) :
                        /\ YtcfgMatches(page, i, k)
                        /\ \A m \in 1..Len(page) : YtcfgMatches(page, i, m) => k <= m
             IN  SubSeq(page, i + 2, j)

\* extract.rs:264-279
extract_ytcfg(webpage_content) ==
    IF webpage_content = <<>> THEN Ok(EmptyMap)
    ELSE from_str(IF YtcfgCaptured(webpage_content) = <<>> THEN <<"{", "}">>
                  ELSE YtcfgCaptured(webpage_content))

\* The pieces a page body is put together from: braces, a key with its
\* colon, a number, a string that holds a brace, a string that holds an
\* escaped quote, a quote alone and a word.
Pieces ==
    { <<"{">>, <<"}">>, <<"\"", "k", "\"", ":">>, <<"1">>,
      <<"\"", "}", "\"">>, <<"\"", "\\", "\"", "\"">>, <<"\"">>, <<"k">> }

RECURSIVE Flatten(_)
Flatten(pieces) ==
    IF pieces = <<>> THEN <<>> ELSE Head(pieces) \o Flatten(Tail(pieces))

Bodies == {Flatten(ps) : ps \in SeqsUpTo(Pieces, MaxPieces)}

InitialPrPattern == <<"ytInitialPlayerResponse", "=">>
SearchJsonCalls ==
    [ start_pattern : {InitialPrPattern},
      html : {pre \o body : pre \in {<<>>, InitialPrPattern}, body \in Bodies},
      default : {None, Some((<<"d">> :> JsonNumber(<<"1">>)))} ]
YtcfgPages ==
    { pre \o body \o post : pre \in {<<>>, <<"ytcfg.set", "(">>},
                            body \in Bodies,
                            post \in {<<>>, <<")", ";">>} }

InitJson ==
    /\ \/ /\ fn_pc = Called("search_json")
          /\ arg \in SearchJsonCalls
       \/ /\ fn_pc = Called("extract_ytcfg")
          /\ arg \in YtcfgPages
    /\ ret = <<>>
    /\ OrchIdle /\ DedupIdle /\ FacadeIdle /\ CipherIdle /\ CacheIdle /\ JarIdle

SearchJson ==
    /\ fn_pc = Called("search_json")
    /\ ret' = search_json(arg.start_pattern, arg.html, arg.default)
    /\ fn_pc' = Returned("search_json")
    /\ UNCHANGED <<arg, orchVars, dedupVars, facadeVars, cipherVars, cacheVars, jarVars>>

ExtractYtcfg ==
    /\ fn_pc = Called("extract_ytcfg")
    /\ ret' = extract_ytcfg(arg)
    /\ fn_pc' = Returned("extract_ytcfg")
    /\ UNCHANGED <<arg, orchVars, dedupVars, facadeVars, cipherVars, cacheVars, jarVars>>

NextJson == SearchJson \/ ExtractYtcfg

SpecJson == InitJson /\ [][NextJson]_vars

----------------------------------------------------------------------------
(* Claims about the extraction.                                            *)

Elems(s) == {s[i] : i \in 1..Len(s)}

Terminated == pc \in {"done", "failed"}

\* C1: for every selection and every sequence of player responses the loop
\* eventually empties its working list and the extraction reaches DONE or
\* FAILED.  (Checked under FairSpec; the code re-appends a fallback client
\* on every age-gated answer, so an endpoint that keeps answering age-gated
\* keeps the loop running.)
C1_LoopTerminates == <>Terminated

InitialKept == {"valid", "no_video_id"}

C3_FailureOnlyOnExhaustion ==
    /\ (last.client # "none" /\ last.resp.err) => pc # "failed" \/ actual_clients = <<>>
    /\ (pc = "failed") =>
           actual_clients = <<>> /\ prs = <<>> /\ result = "NoPlayerResponse"

\* C5: without music URL and music flag the selection is
\* [Tv, WebCreator, WebSafari, Web] (premium), [Tv, WebSafari, Web]
\* (authenticated) or [AndroidSdkless, Tv, WebSafari, Web] (anonymous).
C5_DefaultSelection ==
    (pc # "select" /\ ~is_music) =>
        clients = IF is_premium_subscriber
                  THEN <<"Tv", "WebCreator", "WebSafari", "Web">>
                  ELSE IF is_authenticated
                       THEN <<"Tv", "WebSafari", "Web">>
                       ELSE <<"AndroidSdkless", "Tv", "WebSafari", "Web">>

\* C7: once built the registry never changes, and it maps every ClientId to
\* that ClientId's own profile.
C7_RegistryTotal ==
    /\ [][registry.built => registry' = registry]_vars
    /\ [](registry.built =>
            \A c \in YtClient :
                c \in DOMAIN registry.m /\ registry.m[c].profile = OwnProfile(c))

\* C8: an age-gated response appends WebEmbedded exactly when the answering
\* client's variant is not "embedded".
C8_WebEmbeddedOnlyFromNonEmbedded ==
    (last.client # "none" /\ last.accepted /\ last.resp.age_gated) =>
        ("WebEmbedded" \in Elems(last.appended)
            <=> get_variant(last.client) # <<"embedded">>)

----------------------------------------------------------------------------
(* Claims about the de-duplication step.                                   *)

\* The position of the first occurrence of x in s.
FirstIndex(s, x) == CHOOSE i \in 1..Len(s) : s[i] = x /\ \A j \in 1..(i - 1) : s[j] # x

\* C6: the emitted sequence holds every tag of the candidate sequence once,
\* in the order of the tags' first occurrences.
C6_DedupKeepsFirstOccurrence ==
    (dd_pc = "emitted") =>
        /\ Elems(unique_clients) = Elems(candidate)
        /\ \A i, j \in 1..Len(unique_clients) :
              /\ (i # j) => unique_clients[i] # unique_clients[j]
              /\ (i < j) => FirstIndex(candidate, unique_clients[i])
                              < FirstIndex(candidate, unique_clients[j])

\* A candidate with a repeated tag between two others has been de-duplicated.
C6_Witness ==
    /\ dd_pc = "emitted"
    /\ Len(candidate) = 3 /\ candidate[1] = candidate[3] /\ candidate[1] # candidate[2]
    /\ Len(unique_clients) = 2

----------------------------------------------------------------------------
(* Claims about the facade.                                                *)

----------------------------------------------------------------------------
(* Claims about the decipher.                                              *)

\* The query of a URL as a map from parameter names to values.
QueryOf(url) == CollectPairs(form_urlencoded_parse(UrlQuery(url)))

\* C9: after a successful decipher, player_cache holds the deciphered
\* signature under ("sig-<player_url>", s), and no call runs the solver for
\* a value and player URL an earlier call already ran it for.
C9_DecipherMemoizes ==
    /\ (dc.outcome = "ok") =>
          LET cache_id == CacheId("sig", dc.player_url, dc.fields.s)
          IN  /\ cache_id \in DOMAIN player_cache
              /\ player_cache[cache_id] = Solve("sig", dc.fields.s)
    /\ dc.reran = {}

\* C10: a successful decipher returns <url>&<sp>=<deciphered s>, sp being
\* "signature" when the query names none, with the value of the URL's
\* parameter n, wherever it stands in the query, replaced by the deciphered
\* n; without a parameter n it returns the signed URL unchanged.
C10_SignedUrlWithDecipheredN ==
    (dc.outcome = "ok") =>
        LET signed == dc.fields.url \o <<"&">>
                      \o (IF dc.fields.sp = <<>> THEN <<"signature">> ELSE dc.fields.sp)
                      \o <<"=">> \o Solve("sig", dc.fields.s)
            query == QueryOf(signed)
        IN  IF <<"n">> \in DOMAIN query
            THEN /\ UrlBase(dc.out) = UrlBase(signed)
                 /\ QueryOf(dc.out) = [query EXCEPT ![<<"n">>] = Solve("n", query[<<"n">>])]
            ELSE dc.out = signed

\* C11: a decipher call whose signature query lacks `url` or lacks `s` fails
\* with the input error, starts no solver run and leaves code_cache and
\* player_cache as they were.
C11_MissingFieldFailsUntouched ==
    /\ []((dc.outcome # "none" /\ (dc.fields.url = <<>> \/ dc.fields.s = <<>>))
            => (dc.outcome = "missing_url_or_s" /\ dc.ran = {} /\ dc.out = <<>>))
    /\ [][(dc' # dc /\ (dc'.fields.url = <<>> \/ dc'.fields.s = <<>>))
            => (code_cache' = code_cache /\ player_cache' = player_cache
                /\ solver_runs' = solver_runs)]_vars

\* A call with `url` but without `s` has failed although the player's code
\* is in code_cache.
C11_Witness ==
    /\ dc.outcome = "missing_url_or_s"
    /\ dc.fields.url # <<>> /\ dc.fields.s = <<>>
    /\ player_js_cache_key(dc.player_url) \in DOMAIN code_cache

----------------------------------------------------------------------------
(* Claims about CacheStore.                                                *)

\* C12: once add(k, v) has been called, get(k) returns Some(v) and
\* contains(k) is true, and the stored value stays the v of the first add
\* whatever is added under k later.
C12_StoreOnce ==
    /\ \A k \in DOMAIN first_added : k \in DOMAIN store /\ store[k] = first_added[k]
    /\ (store_op.method = "get" /\ store_op.key \in DOMAIN first_added)
          => store_op.returned = <<first_added[store_op.key]>>
    /\ (store_op.method = "contains" /\ store_op.key \in DOMAIN first_added)
          => store_op.returned = <<"true">>

----------------------------------------------------------------------------
(* Claims about functions of one argument.                                 *)

\* A data-sync-id part that is not empty and holds no separator.
Plain(part) == part # <<>> /\ Find(part, "||") = 0

\* C13: parse_data_sync_id maps "A||B" to (A, B), "A||" to (None, A), "A" to
\* (None, A) and the empty string to (None, None), A and B not empty.
C13_ParseDataSyncId ==
    (fn_pc = Returned("parse_data_sync_id")) =>
        LET i == Find(arg, "||")
            A == SubSeq(arg, 1, i - 1)
            B == SubSeq(arg, i + 1, Len(arg))
        IN  /\ (arg = <<>>) => ret = <<None, None>>
            /\ Plain(arg) => ret = <<None, Some(arg)>>
            /\ (i > 0 /\ Plain(A) /\ B = <<>>) => ret = <<None, Some(A)>>
            /\ (i > 0 /\ Plain(A) /\ Plain(B)) => ret = <<Some(A), Some(B)>>

\* The number of characters of a string given to VideoId::new.
CharCount(str) ==
    str.alnum + str.dash + str.underscore + str.ascii_other + str.utf8_2 + str.utf8_3

\* C14: VideoId::new succeeds exactly for the strings of 11 characters that
\* are all in [A-Za-z0-9_-], and then wraps the string; for every other
\* string it returns an error and no VideoId.
C14_VideoIdValidity ==
    (fn_pc = Returned("VideoId::new")) =>
        /\ ret.ok <=> (CharCount(arg) = 11 /\ arg.ascii_other = 0
                        /\ arg.utf8_2 = 0 /\ arg.utf8_3 = 0)
        /\ ret.ok => ret.val = <<arg>>
        /\ ~ret.ok => (ret.val = <<>> /\ ret.err # "")

\* A string of 11 ASCII characters one of which is not allowed has been
\* rejected.
C14_Witness ==
    /\ fn_pc = Returned("VideoId::new")
    /\ CharCount(arg) = 11 /\ ByteLen(arg) = 11 /\ arg.ascii_other = 1
    /\ arg.dash = 1 /\ arg.underscore = 1
    /\ ~ret.ok

----------------------------------------------------------------------------
(* Claims about cancellation.                                              *)

\* C15: an invocation cancelled at a suspension point owns the guard no
\* longer and is queued no longer; a guard that is free while invocations
\* are queued is acquired by one of them unless they are all cancelled
\* first, and an invocation made while the guard is free and nobody is
\* queued acquires it at once.
C15_CancelReleasesGuard ==
    /\ [](\A t \in Tasks :
            (task[t].at = "cancelled") =>
                (t \notin holder /\ \A i \in 1..Len(waiters) : waiters[i] # t))
    /\ [][\A t \in Tasks :
            (task[t].at = "idle" /\ task'[t].at # "idle"
               /\ holder = {} /\ waiters = <<>>) => (holder' = {t})]_vars
    /\ ((holder = {} /\ waiters # <<>>) ~> (holder # {} \/ waiters = <<>>))

\* An invocation was cancelled while it owned the guard, which is now free
\* with a second invocation queued for it.
C15_Witness ==
    \E t \in Tasks, u \in Tasks :
        /\ task[t].at = "cancelled" /\ task[t].op = "get_streams"
        /\ task[u].at = "waiting"
        /\ holder = {}
        /\ \A v \in Tasks \ {t, u} : task[v].at = "idle"

----------------------------------------------------------------------------
(* C16: for each present SAPISID slot the header carries the token
   `<scheme> <timestamp>_<sha1_hex>`, followed by `_<extra>` only when the
   extra map is not empty, and the timestamp in the token is the one that
   was hashed.  The header is the tokens of the present slots joined by a
   space, in the order of the slots.                                        *)

\* The hexadecimal text of a digest.
Hex(digest) == <<"hex_of_sha1">> \o digest.sha1_of

SpecifiedToken(i, slot, origin, user_session_id, now) ==
    <<SidSchemes[i], " ", ToString(time_stamp(now)), "_">>
    \o Hex(sid_hash(slot.val, IF origin.some THEN origin.val ELSE YT_URL,
                    AdditionalParts(user_session_id),
                    IF user_session_id.some THEN <<"u">> ELSE <<>>, now))
    \o (IF user_session_id.some THEN <<"_">> \o user_session_id.val ELSE <<>>)

RECURSIVE SpecifiedTokens(_, _, _, _, _)
SpecifiedTokens(i, slots, origin, user_session_id, now) ==
    IF i > Len(slots) THEN <<>>
    ELSE (IF slots[i].some
          THEN <<SpecifiedToken(i, slots[i], origin, user_session_id, now)>>
          ELSE <<>>)
         \o SpecifiedTokens(i + 1, slots, origin, user_session_id, now)

C16_SidAuthorizationToken ==
    fn_pc = Returned("get_sid_authorization_header") =>
        /\ ret.ok
        /\ LET tokens == SpecifiedTokens(1, get_sid_cookies(arg[1]),
                                         arg[2], arg[3], arg[4])
           IN  ret.val[1] = IF tokens = <<>> THEN None
                            ELSE Some(join(tokens, <<" ">>))

----------------------------------------------------------------------------
(* C17: splitting header_value(set) on "; " and each part at its first "="
   gives the (name, value) pairs of the cookies of the set, in the same
   order and with the same multiplicity.                                    *)

C17_HeaderValueRoundTrip ==
    fn_pc = Returned("header_value") =>
        CookiePairs(ret) = [i \in 1..Len(arg) |-> <<arg[i].name, arg[i].value>>]

----------------------------------------------------------------------------
(* C18: player_js_cache_key is a function of the player URL alone.  When no
   pattern matches it fails with the player-identification error; when the
   URL has a path it returns `<player_id>-<url path>` with the id captured
   by the first of the three patterns that matches; and every invocation on
   the same URL gives the same result.                                      *)

\* The captures of the three patterns, in their order.
Captures(u) == <<Capture1(u), Capture2(u), Capture3(u)>>
FirstMatch(u) == Leftmost({k \in 1..3 : Captures(u)[k] # <<>>})

----------------------------------------------------------------------------
(* C19: a get_all(domain) that runs while other threads call set returns
   exactly the cookies of that domain in the jar as it was after some
   complete set (or after construction) not older than the call and not
   newer than the return: it never holds a slot that is still being
   written, nor a cookie of another domain.                                 *)

C19_GetAllSeesCompleteSets ==
    \A t \in DOMAIN thr :
        (thr[t].op = "get_all" /\ thr[t].at = "returned") =>
            /\ thr[t].ret.ok
            /\ \E k \in thr[t].from..thr[t].upto :
                   thr[t].ret.val[1] = OfDomain(hist[k], thr[t].domain)
            /\ \A i \in 1..Len(thr[t].ret.val[1]) :
                   /\ thr[t].ret.val[1][i].domain = thr[t].domain
                   /\ thr[t].ret.val[1][i].value # Unwritten

\* A get_all was called before a set of its domain completed and returned
\* after it, with that cookie, while the jar also holds another domain's.
C19_Witness ==
    \E t \in DOMAIN thr :
        /\ thr[t].op = "get_all" /\ thr[t].at = "returned"
        /\ thr[t].from < thr[t].upto
        /\ thr[t].ret.val[1] # OfDomain(hist[thr[t].from], thr[t].domain)
        /\ \E i \in 1..Len(jar) : jar[i].domain # thr[t].domain

----------------------------------------------------------------------------
(* C20: every player response of a successful extract_player_responses has
   videoDetails.videoId equal to the requested id, the prepended initial
   player response included; and the initial player response is in the list
   only when its videoDetails.videoId is the requested id, and then with its
   streamingData replaced by null.                                          *)

C20_ReturnedResponsesHaveRequestedId ==
    result = "Ok" =>
        \A i \in 1..Len(prs) :
            /\ prs[i].id_ok
            /\ prs[i].from = "initial_pr" =>
                   /\ PrVideoId(initial_pr) = RequestedVideoId
                   /\ prs[i].streamingData = "null"

----------------------------------------------------------------------------
(* C21: for an anonymous caller a client response that is age-gated is
   skipped: the list of player responses that extract_player_responses
   returns holds no age-gated client response.                              *)

C21_AnonymousSkipsAgeGated ==
    (result = "Ok" /\ ~is_authenticated) =>
        \A i \in 1..Len(prs) : prs[i].from \in YtClient => ~prs[i].age_gated

----------------------------------------------------------------------------
(* C22: for an authenticated caller, when the response of a client (one for
   the requested video, so that it is not skipped as invalid) is age-gated,
   or comes from a client of the embedded variant and is UNPLAYABLE, the
   iteration appends TvEmbedded and then WebCreator to the working list.    *)

EndsWith(s, tl) == Len(s) >= Len(tl) /\ SubSeq(s, Len(s) - Len(tl) + 1, Len(s)) = tl

C22_AuthenticatedFallback ==
    (/\ is_authenticated /\ pc = "loop"
     /\ last.client # "none" /\ last.accepted
     /\ \/ last.resp.age_gated
        \/ get_variant(last.client) = <<"embedded">> /\ last.resp.unplayable)
        => /\ EndsWith(last.appended, <<"TvEmbedded", "WebCreator">>)
           /\ EndsWith(actual_clients, <<"TvEmbedded", "WebCreator">>)

\* C23: during an authenticated extraction every client that is sent a
\* player request, from the initial selection or appended by a fallback,
\* has a registry profile with supports_cookies = true.
C23_AuthenticatedAsksCookieClientsOnly ==
    is_authenticated =>
        \A i \in 1..Len(asked) :
            /\ asked[i] \in DOMAIN registry.m
            /\ registry.m[asked[i]].supports_cookies

\* An authenticated extraction that requested a client of the selection and
\* then the fallback clients appended during the loop.
C23_Witness ==
    /\ is_authenticated
    /\ Find(asked, "WebSafari") > 0
    /\ Find(asked, "WebEmbedded") > 0
    /\ Find(asked, "TvEmbedded") > Find(asked, "WebSafari")
    /\ Find(asked, "WebCreator") > Find(asked, "WebSafari")

\* C24: the clients of the selection are requested in the order of the
\* selection: when the client at position j has been requested, each client
\* at a position i < j was requested before it.
C24_SelectionOrder ==
    \A i \in 1..Len(clients), j \in 1..Len(clients) :
        (i < j /\ Find(asked, clients[j]) > 0)
            => /\ Find(asked, clients[i]) > 0
               /\ Find(asked, clients[i]) < Find(asked, clients[j])

\* A selection of three clients or more, all requested, with a fallback
\* client requested between two of them.
C24_Witness ==
    /\ Len(clients) >= 3
    /\ \A i \in 1..Len(clients) : Find(asked, clients[i]) > 0
    /\ Find(asked, "WebEmbedded") > 0
    /\ Find(asked, "WebEmbedded") < Find(asked, clients[Len(clients)])

\* C25: once visitor_data, data_sync_id or the player URL holds a value, a
\* step of the extraction leaves that value as it is.
C25_ResolvedValuesKept ==
    [][ /\ the_player_url.some => the_player_url' = the_player_url
        /\ the_visitor_data.some => the_visitor_data' = the_visitor_data
        /\ the_data_sync_id.some => the_data_sync_id' = the_data_sync_id ]_vars

\* The three values are resolved and a later iteration has run: two
\* clients or more were requested.
C25_Witness ==
    /\ the_player_url.some /\ the_visitor_data.some /\ the_data_sync_id.some
    /\ Len(asked) >= 2
    /\ pc = "loop"

\* C26: after an iteration for a client that requires a JS player, when no
\* ytcfg supplies a player script URL, the iframe_api page has been fetched,
\* and it is fetched at most once in an extraction.
C26_IframeFallbackOnce ==
    /\ iframe_fetches <= 1
    /\ (/\ pc \in {"loop", "done"}
        /\ last.client \in DOMAIN registry.m
        /\ registry.m[last.client].require_js_player
        /\ get_player_url(<<webpage_ytcfg,
                            player_ytcfg(last.client, webpage_ytcfg)>>) = <<>>)
           => iframe_fetches = 1

\* C27: a load_player call that succeeds leaves the fingerprint of its URL
\* in code_cache, and a call for a fingerprint that an earlier call
\* succeeded for returns the code that call returned and issues no GET.
C27_LoadPlayerCachesOnSuccess ==
    fn_pc = Returned("load_player") =>
        /\ ret.result.ok => player_js_cache_key(arg.player_url) \in DOMAIN code_cache
        /\ player_js_cache_key(arg.player_url) \in DOMAIN arg.earlier =>
              /\ ret.result = Ok(arg.earlier[player_js_cache_key(arg.player_url)])
              /\ ~ret.fetched

\* C27, as the code has it: a load_player call that returns code that is not
\* empty leaves the fingerprint of its URL in code_cache, and a call for a
\* fingerprint that an earlier call returned such code for returns that code
\* and issues no GET.
C27_LoadPlayerCachesCode ==
    fn_pc = Returned("load_player") =>
        /\ (ret.result.ok /\ ret.result.val[1] # "") =>
              player_js_cache_key(arg.player_url) \in DOMAIN code_cache
        /\ (/\ player_js_cache_key(arg.player_url) \in DOMAIN arg.earlier
            /\ arg.earlier[player_js_cache_key(arg.player_url)] # "") =>
              /\ ret.result = Ok(arg.earlier[player_js_cache_key(arg.player_url)])
              /\ ~ret.fetched

\* A call for a player whose code an earlier call downloaded: it is answered
\* from the cache although the GET would now give another text.
C27_Witness ==
    /\ fn_pc = Returned("load_player")
    /\ player_js_cache_key(arg.player_url) \in DOMAIN arg.earlier
    /\ arg.earlier[player_js_cache_key(arg.player_url)] = "player.js, rebuilt"
    /\ ret.result = Ok("player.js, rebuilt")
    /\ ~ret.fetched

\* C28: no step of an extraction or of a decipher call removes a key of
\* code_cache or of player_cache, or changes the value under it.
C28_CacheEntriesKept ==
    [][ /\ \A k \in DOMAIN code_cache :
              k \in DOMAIN code_cache' /\ code_cache'[k] = code_cache[k]
        /\ \A k \in DOMAIN player_cache :
              k \in DOMAIN player_cache' /\ player_cache'[k] = player_cache[k] ]_vars

\* code_cache holds the code of a player and both solver modules, and a
\* later load_player for that player was answered from the cache.
C28_Witness ==
    /\ fn_pc = Returned("load_player")
    /\ player_js_cache_key(arg.player_url) \in DOMAIN arg.earlier
    /\ ~ret.fetched
    /\ {player_js_cache_key(arg.player_url), SolverLibKey, SolverCoreKey}
          \subseteq DOMAIN code_cache

\* C29: extract_signature_timestamp returns ytcfg.STS when it is an integer;
\* with no integer STS in the ytcfg it returns the memoized value when there
\* is one, else the five digits matched in the player script, and None only
\* when none of the three gives a value.
C29_SignatureTimestampPrecedence ==
    fn_pc = Returned("extract_signature_timestamp") =>
        LET sts == arg[1]
            memo == arg[2]
            loaded == arg[3]
            has_int == sts.some /\ sts.val.kind = "i64"
            has_memo == memo.ok /\ memo.val[1].some /\ parse_i64(memo.val[1].val).ok
            has_code == loaded.ok /\ StsCaptured(loaded.val[1]) # <<>>
        IN  /\ has_int => ret = Ok(Some(sts.val.int))
            /\ (~has_int /\ has_memo) =>
                  ret = Ok(Some(parse_i64(memo.val[1].val).val[1]))
            /\ (~has_int /\ memo = Ok(None) /\ has_code) =>
                  ret = Ok(Some(<<DecimalValue(StsCaptured(loaded.val[1]))>>))
            /\ ret = Ok(None) => (~has_int /\ ~has_memo /\ ~has_code)

\* C30: each session id of extract_player_response is the one parsed from
\* data_sync_id when there is a data_sync_id and parsing it yields that id,
\* otherwise the one found by searching the ytcfgs; with no data_sync_id, a
\* USER_SESSION_ID of the webpage ytcfg is the user session id.
C30_SessionIdPrecedence ==
    fn_pc = Returned("extract_player_response") =>
        LET sync_id == arg[1]
            ytcfgs == <<arg[2], EmptyYtcfg, arg[2]>>
            parsed == IF sync_id.some THEN parse_data_sync_id(sync_id.val)
                      ELSE <<None, None>>
        IN  /\ ret[1] = IF parsed[1].some THEN parsed[1]
                        ELSE get_delegated_session_id(ytcfgs)
            /\ ret[2] = IF parsed[2].some THEN parsed[2]
                        ELSE get_user_session_id(ytcfgs)
            /\ (~sync_id.some /\ <<"USER_SESSION_ID">> \in DOMAIN arg[2]) =>
                  ret[2] = Some(arg[2][<<"USER_SESSION_ID">>])

\* C31: whenever a delegated session id is available for a request, passed
\* to generate_cookie_auth_headers or found in the config, the headers
\* returned hold X-Goog-PageId equal to that id and X-Goog-AuthUser equal to
\* the session index, 0 when there is none.
C31_DelegatedSessionHeaders ==
    fn_pc = Returned("generate_cookie_auth_headers") =>
        LET delegated == IF arg.delegated_session_id.some
                         THEN arg.delegated_session_id
                         ELSE get_delegated_session_id(<<arg.ytcfg>>)
            index == IF arg.session_index.some THEN arg.session_index
                     ELSE get_session_index(<<arg.ytcfg>>)
        IN  (ret.ok /\ delegated.some) =>
                /\ "X-Goog-PageId" \in DOMAIN ret.val[1]
                /\ ret.val[1]["X-Goog-PageId"] = delegated.val
                /\ "X-Goog-AuthUser" \in DOMAIN ret.val[1]
                /\ ret.val[1]["X-Goog-AuthUser"] =
                       to_string(IF index.some THEN index.val[1] ELSE 0)

\* C32: search_json called without a default fails with a decode error when
\* the start pattern is not found, when the braces after it never balance,
\* or when the extracted text is not valid JSON; called with a default it
\* returns that default in each of those cases.
C32_SearchJsonFailsOrDefaults ==
    fn_pc = Returned("search_json") =>
        LET start_pos == MatchEnd(arg.start_pattern, arg.html)
            chars == SubSeq(arg.html, start_pos, Len(arg.html))
            found == Balance(chars, 1, 0, 0, FALSE, FALSE)
            undecoded ==
                \/ start_pos = 0
                \/ found = <<>>
                \/ ~from_str(SubSeq(chars, found[1], found[2])).ok
        IN  undecoded =>
                IF arg.default.some THEN ret = Ok(arg.default.val) ELSE ~ret.ok

\* C33: extract_ytcfg never fails: for any webpage text it returns an
\* object, which is empty when the page contains no ytcfg.set(...) call.
C33_ExtractYtcfgNeverFails ==
    fn_pc = Returned("extract_ytcfg") =>
        /\ ret.ok
        /\ (\A i \in 1..Len(arg) : arg[i] # "ytcfg.set") => ret = Ok(EmptyMap)

\* C34: for every ClientId, get_base and get_variant split its textual name
\* on the first "_"; for a name without "_" the base equals the name and the
\* variant is empty.
C34_NameSplitOnFirstUnderscore ==
    fn_pc = Returned("get_base") =>
        LET name == as_str(arg[1])
            underscores == {i \in 1..Len(name) : name[i] = "_"}
        IN  IF underscores = {}
            THEN ret.base = name /\ ret.variant = <<>>
            ELSE \E i \in underscores :
                    /\ \A j \in underscores : i <= j
                    /\ ret.base = SubSeq(name, 1, i - 1)
                    /\ ret.variant = SubSeq(name, i + 1, Len(name))

\* C35: two decipher_signature calls started concurrently on the same
\* facade under the single cooperative task runtime both eventually
\* complete: the second call, waiting for the decipher guard the first holds
\* across its suspension points, does not prevent the first from making
\* progress.
C35_ConcurrentDeciphersComplete ==
    \A t \in Tasks : (task[t].at # "idle") ~> (task[t].at = "returned")

\* C36: decipher_signature never fetches the player script itself.  A call
\* succeeds only if code_cache held the script under the fingerprint of the
\* given player URL when it started, the key under which load_player stores
\* it; otherwise it returns an error, the solver is not started and both
\* caches stay as they were.
C36_DecipherNeedsLoadedPlayer ==
    [][ IF dc' # dc
        THEN \E key \in {player_js_cache_key(dc'.player_url)} :
                 IF key # <<>> /\ key \in DOMAIN code_cache
                 THEN /\ DOMAIN code_cache' \ DOMAIN code_cache
                             \subseteq {SolverLibKey, SolverCoreKey}
                      /\ player_cache' = player_cache
                 ELSE /\ dc'.outcome # "ok"
                      /\ dc'.ran = {}
                      /\ code_cache' = code_cache
                      /\ player_cache' = player_cache
        ELSE code_cache' # code_cache =>
                 DOMAIN code_cache' \ DOMAIN code_cache
                     \subseteq {player_js_cache_key(u) : u \in PlayerUrls} ]_vars

C36_Witness ==
    /\ dc.outcome = "ok"
    /\ dc.ran # {}
    /\ player_js_cache_key(dc.player_url) \in DOMAIN code_cache

\* C37: a fallback client appended during the loop is requested next,
\* before any not-yet-tried client of the initial selection; when TvEmbedded
\* and WebCreator are appended together, WebCreator is requested before
\* TvEmbedded, and both before a WebEmbedded appended in the same iteration.
\* Every iteration requests the client on top of the working list and leaves
\* the clients below it where they are, so the order of the requests is the
\* order of the list from its top.
C37_FallbacksRequestedNext ==
    [][ (pc = "loop" /\ actual_clients # <<>>) =>
          LET n == Len(actual_clients)
              m == Len(actual_clients')
              app == last'.appended
          IN  /\ last'.client = actual_clients[n]
              /\ Elems(asked') = Elems(asked) \cup {actual_clients[n]}
              /\ last.appended # <<>> =>
                     last'.client = last.appended[Len(last.appended)]
              /\ pc' = "loop" =>
                     /\ actual_clients' = SubSeq(actual_clients, 1, n - 1) \o app
                     /\ ("TvEmbedded" \in Elems(app) /\ "WebCreator" \in Elems(app)) =>
                            /\ actual_clients'[m] = "WebCreator"
                            /\ actual_clients'[m - 1] = "TvEmbedded"
                            /\ "WebEmbedded" \in Elems(app) =>
                                   /\ actual_clients'[m - 2] = "WebEmbedded"
                                   /\ Len(app) = 3 ]_vars

\* WebCreator has been requested right after an iteration that appended the
\* three fallbacks; TvEmbedded and WebEmbedded wait above a client of the
\* initial selection.
C37_Witness ==
    /\ pc = "loop"
    /\ last.client = "WebCreator" /\ last.appended = <<>>
    /\ Len(actual_clients) >= 3
    /\ actual_clients[Len(actual_clients)] = "TvEmbedded"
    /\ actual_clients[Len(actual_clients) - 1] = "WebEmbedded"
    /\ actual_clients[Len(actual_clients) - 2] \in Elems(clients)
    /\ actual_clients[Len(actual_clients) - 2] \notin Elems(asked)

\* C38: CookieJar.set only appends: it never replaces or removes a stored
\* cookie, even one with the same name and domain.  After set every cookie
\* stored before is unchanged and in the same position and the new cookie is
\* last, and get(name) on the result of get_all returns the earliest cookie
\* stored under that name in the domain.
C38_SetOnlyAppends ==
    [][ /\ jar' # jar =>
              /\ Len(jar') = Len(jar) + 1
              /\ \A i \in 1..Len(jar) : jar'[i] = jar[i]
              /\ jar'[Len(jar')] = arg'.cookie
        /\ fn_pc' = Returned("get_all") =>
              \A n \in CookieNames :
                  LET stored == {i \in 1..Len(jar') :
                                     /\ jar'[i].name = n
                                     /\ jar'[i].domain = arg'.domain}
                  IN  IF stored = {} THEN ret'.found[n] = None
                      ELSE \E i \in stored :
                              /\ \A j \in stored : i <= j
                              /\ ret'.found[n] = Some(jar'[i]) ]_vars

\* A set of a cookie whose name and domain are those of a stored cookie with
\* another value has returned.
C38_Witness ==
    /\ fn_pc = Returned("set")
    /\ jar = Append(arg.before, arg.cookie)
    /\ \E i \in 1..Len(arg.before) :
           /\ arg.before[i].name = arg.cookie.name
           /\ arg.before[i].domain = arg.cookie.domain
           /\ arg.before[i].value # arg.cookie.value

=============================================================================
